---- MODULE Spec2Model ----
(***************************************************************************)
(* Model of dt-ppt-builder: template loading (_load_template_clean, alone  *)
(* and run by two builds at once), layout resolution (_layout_map), the    *)
(* generic slide dispatcher (render_slide / render_all / build_generic),   *)
(* the coverage summary (_domain_summary / coverage_table), the structured *)
(* build (_build_prs), the slides with images (render_image, add_img) and  *)
(* the spreadsheet extractor (_normalise_status, _parse_sheet,             *)
(* parse_excel).                                                           *)
(*                                                                         *)
(* Each entry point is explored by its own specification; the variable op  *)
(* names the entry point a behaviour runs, pc its position, err the        *)
(* exception that ended it (NoErr while none was raised).                  *)
(***************************************************************************)
EXTENDS Integers, Sequences, FiniteSets, TLC

VARIABLES
    op,             \* entry point being run
    pc,             \* position inside the entry point
    err,            \* exception raised ([kind, value, valid]) or NoErr
    template,       \* the template file: [ext, sldIdLst, rels, nLayouts]
    tmpfile,        \* content of <tempdir>/dt_ppt_tmp.pptx (NoTemplate while no
                    \* such file exists)
    prs,            \* the loaded Presentation: [sldIdLst, rels, layouts]
    slide_id_list,  \* list(xml_slides): the snapshot the removal loop iterates
    i,              \* loop index of the loop the entry point is in (1-based)
    overrides,      \* cfg["layout_indices"]
    resolved,       \* {**defaults, **overrides}
    SL,             \* the layout map being built: role -> layout
    warned,         \* roles for which the out-of-range warning was printed
    slides,         \* build_generic's list of slide specs
    deck,           \* slides appended to prs.slides since the template was cleared
    results,        \* render_all's result list
    saved,          \* the document written by prs.save: [written, slides]
    cfg,            \* structured build: the config dict (the keys the flow reads)
    req_data,       \* structured build: list of domains [name, reqs]
    domains_summary,\* structured build: list of per-domain summaries
    table,          \* the coverage table: [drawn, rows]
    reqs,           \* _domain_summary's argument
    summary,        \* _domain_summary's result: [done, total, now, partial, roadmap]
    raw,            \* _normalise_status's argument
    normalised,     \* _normalise_status's result: [done, value], and its result on
                    \* that result: [again, second]
    ws,             \* _parse_sheet: the worksheet, as list(ws.iter_rows(values_only=True))
    header_idx,     \* _parse_sheet: index of the header row (0-based), -1 for None
    col_map,        \* _parse_sheet: role -> column index (0-based)
    sheet_reqs,     \* _parse_sheet's result: [done, reqs]
    wb,             \* parse_excel: the workbook [path, sheets], sheets of [name, rows]
    all_reqs,       \* parse_excel: list of (sheet_name, reqs) of the productive sheets
    result,         \* parse_excel's return value: list of domains
    img_spec,       \* the image arguments of one slide: [fn, paths, caption]
    img_slide,      \* the slide drawn from img_spec: [appended, title, captions, pictures, warnings]
    builds,         \* concurrent loads: process -> [pc, template, buf, prs]
    card_spec,      \* render_card_grid's spec: [n, footer], n = len(spec["cards"])
    grid            \* the card grid drawn: [appended, cols, rows, cards, footer]

vars == <<op, pc, err, template, tmpfile, prs, slide_id_list, i, overrides,
          resolved, SL, warned, slides, deck, results, saved, cfg, req_data,
          domains_summary, table, reqs, summary, raw, normalised, ws,
          header_idx, col_map, sheet_reqs, wb, all_reqs, result, img_spec,
          img_slide, builds, card_spec, grid>>

tvars == <<template, tmpfile, prs, slide_id_list>>
lvars == <<overrides, resolved, SL, warned>>
gvars == <<slides, deck, results, saved>>
bvars == <<cfg, req_data, domains_summary, table>>
svars == <<reqs, summary>>
nvars == <<raw, normalised>>
pvars == <<ws, header_idx, col_map, sheet_reqs>>
wvars == <<wb, all_reqs, result>>
ivars == <<img_spec, img_slide>>
cvars == <<card_spec, grid>>
xvars == <<nvars, pvars, wvars, ivars, builds, cvars>>

-----------------------------------------------------------------------------
(* Bounds of the exploration.                                              *)
MaxSlides == 3
MaxTplLayouts == 2
MaxLayouts == 20
MaxSpecs == 2
MaxItems == 2
MaxReqs == 3
MaxDomains == 2
MaxDomReqs == 1

-----------------------------------------------------------------------------
(* Exceptions.                                                             *)
NoErr == [kind |-> "none", value |-> "", valid |-> <<>>]

Raise(kind) == [kind |-> kind, value |-> "", valid |-> <<>>]

-----------------------------------------------------------------------------
(* Generic sequence helpers.                                               *)
RECURSIVE SeqsUpTo(_, _)
SeqsUpTo(S, n) ==
    IF n = 0 THEN {<<>>}
    ELSE LET shorter == SeqsUpTo(S, n - 1)
         IN  shorter \cup {Append(s, x) : s \in {t \in shorter : Len(t) = n - 1}, x \in S}

Range(s) == {s[j] : j \in 1..Len(s)}

\* values of the variables an entry point does not use
NoCfg == [landing |-> FALSE, screenshot_slides |-> <<>>, gcc |-> FALSE]

NoPrs == [sldIdLst |-> <<>>, rels |-> {}, layouts |-> <<>>]

NoTemplate == [ext |-> "", sldIdLst |-> <<>>, rels |-> {}, nLayouts |-> 0]

NotSaved == [written |-> FALSE, slides |-> <<>>]

NoTable == [drawn |-> FALSE, rows |-> <<>>]

NoSummary == [done |-> FALSE, total |-> 0, now |-> 0, partial |-> 0, roadmap |-> 0]

NoNormalised == [done |-> FALSE, value |-> <<>>, again |-> FALSE, second |-> <<>>]

NoSheetReqs == [done |-> FALSE, reqs |-> <<>>]

NoWorkbook == [path |-> "", sheets |-> <<>>]

NoImgSpec == [fn |-> "", paths |-> <<>>, caption |-> FALSE]

NoImgSlide ==
    [appended |-> FALSE, title |-> FALSE, captions |-> 0, pictures |-> 0,
     warnings |-> 0]

-----------------------------------------------------------------------------
(* Template loading: builder._load_template_clean                          *)
(*                                                                         *)
(* A slide reference (sldId) is [id, rId]; rId = 0 stands for a missing    *)
(* r:id attribute.  rels is the set of relationship ids of the             *)
(* presentation part.  A reference whose rId is not in rels is dangling.   *)

SldIdKinds == {"related", "dangling", "norid"}

SldId(n, kind) == [id |-> n, rId |-> IF kind = "norid" THEN 0 ELSE n]

TemplateOf(ext, kinds, nl) ==
    [ext      |-> ext,
     sldIdLst |-> [n \in 1..Len(kinds) |-> SldId(n, kinds[n])],
     rels     |-> {n \in 1..Len(kinds) : kinds[n] = "related"},
     nLayouts |-> nl]

Templates ==
    {TemplateOf(ext, kinds, nl) :
        ext \in {".pptx", ".potx"},
        kinds \in SeqsUpTo(SldIdKinds, MaxSlides),
        nl \in 0..MaxTplLayouts}

\* layouts are numbered as python indexes them: 0 .. n-1
LayoutList(n) == [j \in 1..n |-> j - 1]

\* Presentation(path): the object graph parsed from the file
Presentation(t) ==
    [sldIdLst |-> t.sldIdLst, rels |-> t.rels, layouts |-> LayoutList(t.nLayouts)]

\* the .potx branch: the template is copied to the fixed temp path and its
\* content type patched there; the slide and layout parts are copied as is
PatchedCopy(t) == [t EXCEPT !.ext = ".pptx"]

\* a plausible slip: iterating the live list while removing from it visits
\* every other element only
SnapshotLive(lst) ==
    [n \in 1..((Len(lst) + 1) \div 2) |-> lst[2 * n - 1]]

\* slide_id_list = list(xml_slides)
Snapshot(lst) == lst

\* prs.part.drop_rel(rId) inside try/except: a missing relationship raises,
\* the exception is swallowed and the relationship table is left as it is
DropRel(rels, rId) == rels \ {rId}

\* xml_slides.remove(sId): removes that child node
RECURSIVE XmlRemove(_, _)
XmlRemove(lst, sId) ==
    IF lst = <<>> THEN <<>>
    ELSE IF Head(lst) = sId THEN Tail(lst)
    ELSE <<Head(lst)>> \o XmlRemove(Tail(lst), sId)

IdleTemplate ==
    /\ template = NoTemplate
    /\ tmpfile = NoTemplate
    /\ prs = NoPrs
    /\ slide_id_list = <<>>

IdleLayout ==
    /\ overrides = <<>>
    /\ resolved = <<>>
    /\ SL = <<>>
    /\ warned = {}

IdleGeneric ==
    /\ slides = <<>>
    /\ deck = <<>>
    /\ results = <<>>
    /\ saved = NotSaved

IdleBuild ==
    /\ cfg = NoCfg
    /\ req_data = <<>>
    /\ domains_summary = <<>>
    /\ table = NoTable

IdleSummary ==
    /\ reqs = <<>>
    /\ summary = NoSummary

IdleNormalise ==
    /\ raw = <<>>
    /\ normalised = NoNormalised

IdleSheet ==
    /\ ws = <<>>
    /\ header_idx = -1
    /\ col_map = <<>>
    /\ sheet_reqs = NoSheetReqs

IdleWorkbook ==
    /\ wb = NoWorkbook
    /\ all_reqs = <<>>
    /\ result = <<>>

IdleImage ==
    /\ img_spec = NoImgSpec
    /\ img_slide = NoImgSlide

IdleConcurrent == builds = <<>>

NoCardSpec == [n |-> 0, footer |-> FALSE]

NoGrid == [appended |-> FALSE, cols |-> 0, rows |-> 0, cards |-> <<>>, footer |-> FALSE]

IdleCards ==
    /\ card_spec = NoCardSpec
    /\ grid = NoGrid

IdleExtract == IdleNormalise /\ IdleSheet /\ IdleWorkbook

\* lines 30-51: open the file (through the temp copy for .potx), snapshot the
\* slide list
OpenTemplate ==
    /\ op = "load" /\ pc = "start"
    /\ tmpfile' = IF template.ext = ".potx" THEN PatchedCopy(template) ELSE tmpfile
    /\ prs' = Presentation(IF template.ext = ".potx" THEN PatchedCopy(template)
                                                      ELSE template)
    /\ slide_id_list' = Snapshot(template.sldIdLst)
    /\ i' = 1
    /\ pc' = "removing"
    /\ UNCHANGED <<op, err, template, lvars, gvars, bvars, svars, xvars>>

\* a plausible slip: the node removal sits inside the try block, behind
\* drop_rel, and is skipped when drop_rel raises
RemoveNodeInsideTry(lst, sId, rels) ==
    IF sId.rId # 0 /\ sId.rId \notin rels THEN lst ELSE XmlRemove(lst, sId)

\* lines 54-59: drop_rel is tried and its exception swallowed (rels is the
\* relationship table it is tried on); xml_slides.remove(sId) follows the
\* try block and runs either way
RemoveNode(lst, sId, rels) == XmlRemove(lst, sId)

\* lines 52-59: one iteration of the removal loop
RemoveSlide ==
    /\ op = "load" /\ pc = "removing"
    /\ i <= Len(slide_id_list)
    /\ LET sId == slide_id_list[i]
       IN  prs' = [prs EXCEPT
                     !.rels = IF sId.rId # 0 THEN DropRel(@, sId.rId) ELSE @,
                     !.sldIdLst = RemoveNode(@, sId, prs.rels)]
    /\ i' = i + 1
    /\ UNCHANGED <<op, pc, err, template, tmpfile, slide_id_list,
                   lvars, gvars, bvars, svars, xvars>>

\* lines 60-62: the assertion, then return
AssertCleared ==
    /\ op = "load" /\ pc = "removing"
    /\ i > Len(slide_id_list)
    /\ IF Len(prs.sldIdLst) = 0
       THEN pc' = "returned" /\ err' = err
       ELSE pc' = "raised" /\ err' = Raise("AssertionError")
    /\ UNCHANGED <<op, tvars, i, lvars, gvars, bvars, svars, xvars>>

InitTemplate ==
    /\ op = "load" /\ pc = "start" /\ err = NoErr /\ i = 1
    /\ template \in Templates
    /\ tmpfile = NoTemplate
    /\ prs = NoPrs
    /\ slide_id_list = <<>>
    /\ IdleLayout /\ IdleGeneric /\ IdleBuild /\ IdleSummary
    /\ IdleExtract /\ IdleImage /\ IdleConcurrent /\ IdleCards

NextTemplate == OpenTemplate \/ RemoveSlide \/ AssertCleared

SpecTemplate == InitTemplate /\ [][NextTemplate]_vars

-----------------------------------------------------------------------------
(* Layout resolution: builder._layout_map                                  *)

DefaultTitleCenter == 11
DefaultTitleContent == 2
DefaultTwoImg == 19

\* the keys of `defaults`, in the order the dict literal lists them
DefaultKeys == <<"title_center", "title_content", "two_img">>

defaults ==
    [key \in Range(DefaultKeys) |->
        CASE key = "title_center"  -> DefaultTitleCenter
          [] key = "title_content" -> DefaultTitleContent
          [] key = "two_img"       -> DefaultTwoImg]

\* a plausible slip: {**overrides, **defaults}, the defaults win
MergeDefaultsWin(d, o) ==
    [key \in DOMAIN d \cup DOMAIN o |-> IF key \in DOMAIN d THEN d[key] ELSE o[key]]

\* {**defaults, **overrides}
Merge(d, o) ==
    [key \in DOMAIN d \cup DOMAIN o |-> IF key \in DOMAIN o THEN o[key] ELSE d[key]]

\* iteration order of the merged dict: the defaults' keys first, then the
\* keys only the overrides have
ExtraKeys == {"custom"}

MergedKeys(o) ==
    DefaultKeys \o (IF "custom" \in DOMAIN o THEN <<"custom">> ELSE <<>>)

\* layouts[idx] as python indexes a list: -len .. len-1 are valid, negative
\* indexes count from the end, anything else raises IndexError
PyIndexValid(seq, idx) == -Len(seq) <= idx /\ idx < Len(seq)

PyGetItem(seq, idx) == IF idx >= 0 THEN seq[idx + 1] ELSE seq[Len(seq) + idx + 1]

\* the layout counts and override values explored
LayoutCounts == {0, 1, 3, MaxLayouts - 8, MaxLayouts}

OverrideVals == {-(MaxLayouts + 1), -1, 0, 1, MaxLayouts}

OverrideMaps ==
    UNION {[K -> OverrideVals] : K \in SUBSET Range(DefaultKeys)}
    \cup UNION {{[key \in K \cup ExtraKeys |-> IF key \in K THEN f[key] ELSE 0] :
                    f \in [K -> OverrideVals]} : K \in SUBSET Range(DefaultKeys)}

\* lines 73-81
LayoutStart ==
    /\ op = "layout" /\ pc = "start"
    /\ resolved' = Merge(defaults, overrides)
    /\ i' = 1
    /\ pc' = "resolving"
    /\ UNCHANGED <<op, err, tvars, overrides, SL, warned, gvars, bvars, svars, xvars>>

\* the fallback guard of line 83
InRange(idx, layouts) == idx < Len(layouts)

\* lines 82-89: one iteration of the loop over resolved.items()
ResolveRole ==
    /\ op = "layout" /\ pc = "resolving"
    /\ i <= Len(MergedKeys(overrides))
    /\ LET key     == MergedKeys(overrides)[i]
           idx     == resolved[key]
           layouts == prs.layouts
           used    == IF InRange(idx, layouts) THEN idx ELSE 0
       IN  /\ warned' = IF InRange(idx, layouts) THEN warned ELSE warned \cup {key}
           /\ IF PyIndexValid(layouts, used)
              THEN /\ SL' = [k \in DOMAIN SL \cup {key} |->
                               IF k = key THEN PyGetItem(layouts, used) ELSE SL[k]]
                   /\ i' = i + 1
                   /\ UNCHANGED <<pc, err>>
              ELSE /\ err' = Raise("IndexError")
                   /\ pc' = "raised"
                   /\ UNCHANGED <<SL, i>>
    /\ UNCHANGED <<op, tvars, overrides, resolved, gvars, bvars, svars, xvars>>

\* line 90
LayoutReturn ==
    /\ op = "layout" /\ pc = "resolving"
    /\ i > Len(MergedKeys(overrides))
    /\ pc' = "returned"
    /\ UNCHANGED <<op, err, tvars, i, lvars, gvars, bvars, svars, xvars>>

InitLayout ==
    /\ op = "layout" /\ pc = "start" /\ err = NoErr /\ i = 1
    /\ template = NoTemplate
    /\ tmpfile = NoTemplate
    /\ \E n \in LayoutCounts : prs = [NoPrs EXCEPT !.layouts = LayoutList(n)]
    /\ slide_id_list = <<>>
    /\ overrides \in OverrideMaps
    /\ resolved = <<>>
    /\ SL = <<>>
    /\ warned = {}
    /\ IdleGeneric /\ IdleBuild /\ IdleSummary
    /\ IdleExtract /\ IdleImage /\ IdleConcurrent /\ IdleCards

NextLayout == LayoutStart \/ ResolveRole \/ LayoutReturn

SpecLayout == InitLayout /\ [][NextLayout]_vars


-----------------------------------------------------------------------------
(* Generic slides: generic_slides.render_slide / render_all and            *)
(* builder.build_generic                                                   *)
(*                                                                         *)
(* A slide spec is [type, n]: type is the value of its "type" key (NoType  *)
(* when the key is absent), n the length of its grid content list (cards,  *)
(* items, rows), 0 when that key is absent or the list empty.              *)

NoType == "<absent>"

\* list(_RENDERERS.keys()), in the order of the dict literal
RendererKeys ==
    <<"title", "section", "bullets", "table", "two_column", "text", "image",
      "comparison", "closing", "hero", "card_grid", "icon_bullets",
      "split_panel", "two_image", "value_props", "cta">>

\* _RENDERERS: tag -> rendering function ("None" for _RENDERERS.get's miss)
\* a plausible slip: an unknown tag falls back to the bullets renderer
RenderersLenient(slide_type) ==
    CASE slide_type = "title"        -> "render_title"
      [] slide_type = "section"      -> "render_section"
      [] slide_type = "bullets"      -> "render_bullets"
      [] slide_type = "table"        -> "render_table"
      [] slide_type = "two_column"   -> "render_two_column"
      [] slide_type = "text"         -> "render_text"
      [] slide_type = "image"        -> "render_image"
      [] slide_type = "comparison"   -> "render_comparison"
      [] slide_type = "closing"      -> "render_closing"
      [] slide_type = "hero"         -> "render_hero"
      [] slide_type = "card_grid"    -> "render_card_grid"
      [] slide_type = "icon_bullets" -> "render_icon_bullets"
      [] slide_type = "split_panel"  -> "render_split_panel"
      [] slide_type = "two_image"    -> "render_two_image"
      [] slide_type = "value_props"  -> "render_value_props"
      [] slide_type = "cta"          -> "render_cta"
      [] OTHER                       -> "render_bullets"

Renderers(slide_type) ==
    CASE slide_type = "title"        -> "render_title"
      [] slide_type = "section"      -> "render_section"
      [] slide_type = "bullets"      -> "render_bullets"
      [] slide_type = "table"        -> "render_table"
      [] slide_type = "two_column"   -> "render_two_column"
      [] slide_type = "text"         -> "render_text"
      [] slide_type = "image"        -> "render_image"
      [] slide_type = "comparison"   -> "render_comparison"
      [] slide_type = "closing"      -> "render_closing"
      [] slide_type = "hero"         -> "render_hero"
      [] slide_type = "card_grid"    -> "render_card_grid"
      [] slide_type = "icon_bullets" -> "render_icon_bullets"
      [] slide_type = "split_panel"  -> "render_split_panel"
      [] slide_type = "two_image"    -> "render_two_image"
      [] slide_type = "value_props"  -> "render_value_props"
      [] slide_type = "cta"          -> "render_cta"
      [] OTHER                       -> "None"

\* the layout role each renderer passes to _new
RendererLayout(renderer) ==
    IF renderer \in {"render_title", "render_section", "render_closing",
                     "render_hero", "render_cta"}
    THEN "title_center"
    ELSE "title_content"

\* a plausible slip: spec["type"] read without a default
SlideTypeNoDefault(spec) == spec.type

\* spec.get("type", "bullets")
SlideType(spec) == IF spec.type = NoType THEN "bullets" ELSE spec.type

\* render_card_grid, lines 309-311
\* a plausible slip: the third column already at four cards
CardGridColsFromFour(n) == IF n >= 4 THEN 3 ELSE 2

CardGridCols(n) == IF n > 4 THEN 3 ELSE 2

CardGridRows(n) == (n + CardGridCols(n) - 1) \div CardGridCols(n)

\* render_comparison, line 216: n = len(items) or 1
ComparisonCols(n) == IF n = 0 THEN 1 ELSE n

\* The exception a renderer's body raises after it has appended its slide, or
\* "none": render_card_grid divides 4.5 by its row count (line 314);
\* render_comparison divides by `len(items) or 1`; render_table returns before
\* dividing when it has no rows; the other renderers divide by nothing.
RendererBodyError(renderer, spec) ==
    CASE renderer = "render_card_grid" ->
            IF CardGridRows(spec.n) = 0 THEN "ZeroDivisionError" ELSE "none"
      [] renderer = "render_comparison" ->
            IF ComparisonCols(spec.n) = 0 THEN "ZeroDivisionError" ELSE "none"
      [] OTHER -> "none"

\* the slide _new appends: which layout role, which renderer, for which spec
NewSlide(renderer, k) ==
    [layout |-> RendererLayout(renderer), renderer |-> renderer, from |-> k]

\* a plausible slip: an implicit cover slide is put in front of the first slide
AddSlideWithCover(d, renderer, k) ==
    IF d = <<>>
    THEN <<NewSlide("render_title", 0), NewSlide(renderer, k)>>
    ELSE Append(d, NewSlide(renderer, k))

\* _new: prs.slides.add_slide(SL[key]) appends one slide to the document
AddSlide(d, renderer, k) == Append(d, NewSlide(renderer, k))

\* the ValueError of lines 557-558: names the value and lists the valid tags
UnknownTypeError(slide_type) ==
    [kind |-> "ValueError", value |-> slide_type, valid |-> RendererKeys]

UnknownTypes == {"bogus"}

GridTypes == {"table", "comparison", "card_grid"}

SlideSpecs ==
    {[type |-> t, n |-> 0] : t \in (Range(RendererKeys) \ GridTypes) \cup UnknownTypes \cup {NoType}}
    \cup {[type |-> t, n |-> n] : t \in GridTypes, n \in 0..MaxItems}

\* render_all's loop body (line 566): one render_slide call (lines 552-559),
\* the renderer it dispatches to included
RenderSlide ==
    /\ op = "generic" /\ pc = "rendering"
    /\ i <= Len(slides)
    /\ LET spec       == slides[i]
           slide_type == SlideType(spec)
           renderer   == Renderers(slide_type)
       IN  IF renderer = "None"
           THEN /\ err' = UnknownTypeError(slide_type)
                /\ pc' = "raised"
                /\ UNCHANGED <<deck, results, i>>
           ELSE /\ deck' = AddSlide(deck, renderer, i)
                /\ IF RendererBodyError(renderer, spec) = "none"
                   THEN /\ results' = Append(results, Len(deck) + 1)
                        /\ i' = i + 1
                        /\ UNCHANGED <<pc, err>>
                   ELSE /\ err' = Raise(RendererBodyError(renderer, spec))
                        /\ pc' = "raised"
                        /\ UNCHANGED <<results, i>>
    /\ UNCHANGED <<op, tvars, lvars, slides, saved, bvars, svars, xvars>>

\* a plausible slip: the document is saved in a `finally`, error or not
ReadyToSaveAlways(p, idx, specs) ==
    \/ p = "rendering" /\ idx > Len(specs)
    \/ p = "raised"

\* build_generic reaches prs.save (line 325) only when render_all has returned
\* (line 321): every spec rendered, nothing raised
ReadyToSave(p, idx, specs) == p = "rendering" /\ idx > Len(specs)

\* render_all returns (line 567); build_generic saves (lines 324-327)
SaveDeck ==
    /\ op = "generic"
    /\ ReadyToSave(pc, i, slides)
    /\ saved' = [written |-> TRUE, slides |-> deck]
    /\ pc' = "returned"
    /\ UNCHANGED <<op, err, tvars, i, lvars, slides, deck, results, bvars, svars, xvars>>

\* build_generic after _load_template_clean and _layout_map returned: the
\* slide list is empty and SL holds the three roles
InitGeneric ==
    /\ op = "generic" /\ pc = "rendering" /\ err = NoErr /\ i = 1
    /\ IdleTemplate /\ IdleLayout /\ IdleBuild /\ IdleSummary
    /\ IdleExtract /\ IdleImage /\ IdleConcurrent /\ IdleCards
    /\ slides \in SeqsUpTo(SlideSpecs, MaxSpecs)
    /\ deck = <<>>
    /\ results = <<>>
    /\ saved = NotSaved

NextGeneric == RenderSlide \/ SaveDeck

SpecGeneric == InitGeneric /\ [][NextGeneric]_vars

-----------------------------------------------------------------------------
(* Strings are sequences of characters; the three status glyphs are one    *)
(* character each.                                                         *)

GlyphNow == "[check-mark]"
GlyphPartial == "[high-voltage]"
GlyphRoadmap == "[world-map]"

KwNow == <<"N", "o", "w">>
KwPartial == <<"P", "a", "r", "t", "i", "a", "l">>
KwRoadmap == <<"R", "o", "a", "d", "m", "a", "p">>

\* python's `sub in s` for strings: sub occurs at some offset of s
RECURSIVE Contains(_, _)
Contains(s, sub) ==
    IF Len(sub) > Len(s) THEN FALSE
    ELSE IF SubSeq(s, 1, Len(sub)) = sub THEN TRUE
    ELSE Contains(Tail(s), sub)

\* the conditions of builder.py lines 98-100
\* a plausible slip: the glyph alone decides, the keyword is not looked for
IsNowGlyphOnly(status) == Contains(status, <<GlyphNow>>)

IsNow(status) == Contains(status, <<GlyphNow>>) \/ Contains(status, KwNow)

IsPartial(status) == Contains(status, <<GlyphPartial>>) \/ Contains(status, KwPartial)

IsRoadmap(status) == Contains(status, <<GlyphRoadmap>>) \/ Contains(status, KwRoadmap)

\* sum(1 for r in rs if cond(r.get("status", "")))
RECURSIVE CountNow(_)
CountNow(rs) ==
    IF rs = <<>> THEN 0
    ELSE (IF IsNow(Head(rs).status) THEN 1 ELSE 0) + CountNow(Tail(rs))

RECURSIVE CountPartial(_)
CountPartial(rs) ==
    IF rs = <<>> THEN 0
    ELSE (IF IsPartial(Head(rs).status) THEN 1 ELSE 0) + CountPartial(Tail(rs))

RECURSIVE CountRoadmap(_)
CountRoadmap(rs) ==
    IF rs = <<>> THEN 0
    ELSE (IF IsRoadmap(Head(rs).status) THEN 1 ELSE 0) + CountRoadmap(Tail(rs))

\* builder._domain_summary
DomainSummary(rs) ==
    [total   |-> Len(rs),
     now     |-> CountNow(rs),
     partial |-> CountPartial(rs),
     roadmap |-> CountRoadmap(rs)]

\* the statuses explored; a requirement without a "status" key reads as ""
StatusNow == <<GlyphNow, " ">> \o KwNow
StatusPartial == <<GlyphPartial, " ">> \o KwPartial
StatusRoadmap == <<GlyphRoadmap, " ">> \o KwRoadmap
StatusUnknown == <<"u", "n", "k", "n", "o", "w", "n">>
StatusKeywordOnly == KwNow
StatusBoth == <<GlyphNow, " ">> \o KwNow \o <<" ", "/", " ", GlyphPartial>>
StatusEmpty == <<>>

Statuses ==
    {StatusNow, StatusPartial, StatusRoadmap, StatusUnknown, StatusKeywordOnly,
     StatusBoth, StatusEmpty}

Req(status) == [status |-> status]

\* one call of _domain_summary
ComputeSummary ==
    /\ op = "summary" /\ pc = "start"
    /\ summary' = [done    |-> TRUE,
                   total   |-> DomainSummary(reqs).total,
                   now     |-> DomainSummary(reqs).now,
                   partial |-> DomainSummary(reqs).partial,
                   roadmap |-> DomainSummary(reqs).roadmap]
    /\ pc' = "returned"
    /\ UNCHANGED <<op, err, tvars, i, lvars, gvars, bvars, reqs, xvars>>

InitSummary ==
    /\ op = "summary" /\ pc = "start" /\ err = NoErr /\ i = 1
    /\ IdleTemplate /\ IdleLayout /\ IdleGeneric /\ IdleBuild
    /\ IdleExtract /\ IdleImage /\ IdleConcurrent /\ IdleCards
    /\ reqs \in SeqsUpTo({Req(st) : st \in Statuses}, MaxReqs)
    /\ summary = NoSummary

NextSummary == ComputeSummary

SpecSummary == InitSummary /\ [][NextSummary]_vars

-----------------------------------------------------------------------------
(* Coverage table: helpers.coverage_table                                  *)

Digits == <<"0", "1", "2", "3", "4", "5", "6", "7", "8", "9">>

\* str(n) for n >= 0: the decimal digits
RECURSIVE Str(_)
Str(n) == IF n < 10 THEN <<Digits[n + 1]>> ELSE Str(n \div 10) \o <<Digits[(n % 10) + 1]>>

\* round(a / b * 100) for b > 0: to the nearest integer, a tie to the even one
PctRound(a, b) ==
    LET q == (100 * a) \div b
        r == (100 * a) % b
    IN  IF 2 * r < b THEN q
        ELSE IF 2 * r > b THEN q + 1
        ELSE IF q % 2 = 0 THEN q ELSE q + 1

\* f"{count} ({round(count/tot_total*100)}%)"
PctCell(count, tot_total) ==
    Str(count) \o <<" ", "(">> \o Str(PctRound(count, tot_total)) \o <<"%", ")">>

\* sum(d[field] for d in domains), one operator per field
RECURSIVE SumTotal(_)
SumTotal(ds) == IF ds = <<>> THEN 0 ELSE Head(ds).total + SumTotal(Tail(ds))

RECURSIVE SumNow(_)
SumNow(ds) == IF ds = <<>> THEN 0 ELSE Head(ds).now + SumNow(Tail(ds))

RECURSIVE SumPartial(_)
SumPartial(ds) == IF ds = <<>> THEN 0 ELSE Head(ds).partial + SumPartial(Tail(ds))

RECURSIVE SumRoadmap(_)
SumRoadmap(ds) == IF ds = <<>> THEN 0 ELSE Head(ds).roadmap + SumRoadmap(Tail(ds))

\* lines 165-167: one row of strings per domain
DataRow(d) ==
    [name |-> d.name, total |-> Str(d.total), now |-> Str(d.now),
     partial |-> Str(d.partial), roadmap |-> Str(d.roadmap)]

\* lines 168-173 divide by tot_total
CoverageTableRaises(ds) == SumTotal(ds) = 0

\* lines 160-173: data_rows with the TOTAL row appended (when nothing raises)
CoverageRows(ds) ==
    [j \in 1..Len(ds) |-> DataRow(ds[j])]
    \o <<[name    |-> "TOTAL",
          total   |-> Str(SumTotal(ds)),
          now     |-> PctCell(SumNow(ds), SumTotal(ds)),
          partial |-> PctCell(SumPartial(ds), SumTotal(ds)),
          roadmap |-> PctCell(SumRoadmap(ds), SumTotal(ds))]>>

-----------------------------------------------------------------------------
(* Structured build: builder._build_prs, after _load_template_clean and    *)
(* _layout_map returned.  cfg holds what the flow reads of the config:     *)
(* landing (landing_bullets or images.landing is set), screenshot_slides   *)
(* (the "type" of each entry, NoType when absent), gcc (gcc_slide is set). *)

DomainNames == <<"API", "Data", "Infra", "Cost", "Security">>

BuildStatuses == {StatusNow, StatusBoth, StatusUnknown}

DomainsOf(reqLists) ==
    [j \in 1..Len(reqLists) |-> [name |-> DomainNames[j], reqs |-> reqLists[j]]]

ReqDatas ==
    {DomainsOf(reqLists) :
        reqLists \in SeqsUpTo(SeqsUpTo({Req(st) : st \in BuildStatuses}, MaxDomReqs),
                              MaxDomains)}

CfgMinimal == NoCfg

CfgFull ==
    [landing |-> TRUE, screenshot_slides |-> <<"two_image", "other", "single", NoType>>,
     gcc |-> TRUE]

CfgLandingShots ==
    [landing |-> TRUE, screenshot_slides |-> <<"single", "two_image">>, gcc |-> FALSE]

CfgGccOnly == [landing |-> FALSE, screenshot_slides |-> <<>>, gcc |-> TRUE]

Cfgs == {CfgMinimal, CfgFull, CfgLandingShots, CfgGccOnly}

\* a slide a slide_builder function appends through _new
BuiltSlide(layout, builder, k) == [layout |-> layout, renderer |-> builder, from |-> k]

\* lines 216-217: sb.title_slide
TitleSlide ==
    /\ op = "build" /\ pc = "title"
    /\ deck' = Append(deck, BuiltSlide("title_center", "title_slide", 0))
    /\ pc' = "summaries"
    /\ i' = 1
    /\ UNCHANGED <<op, err, tvars, lvars, slides, results, saved, bvars, svars, xvars>>

\* lines 221-224: one iteration of the summary loop
SummariseDomain ==
    /\ op = "build" /\ pc = "summaries"
    /\ i <= Len(req_data)
    /\ LET d == req_data[i]
           sm == DomainSummary(d.reqs)
       IN  domains_summary' =
             Append(domains_summary,
                    [name |-> d.name, total |-> sm.total, now |-> sm.now,
                     partial |-> sm.partial, roadmap |-> sm.roadmap])
    /\ i' = i + 1
    /\ UNCHANGED <<op, pc, err, tvars, lvars, gvars, cfg, req_data, table, svars, xvars>>

\* line 225: sb.coverage_slide appends its slide, then draws the table
CoverageSlide ==
    /\ op = "build" /\ pc = "summaries"
    /\ i > Len(req_data)
    /\ deck' = Append(deck, BuiltSlide("title_content", "coverage_slide", 0))
    /\ IF CoverageTableRaises(domains_summary)
       THEN /\ err' = Raise("ZeroDivisionError")
            /\ pc' = "raised"
            /\ UNCHANGED table
       ELSE /\ table' = [drawn |-> TRUE, rows |-> CoverageRows(domains_summary)]
            /\ pc' = "landing"
            /\ UNCHANGED err
    /\ UNCHANGED <<op, tvars, i, lvars, slides, results, saved, cfg, req_data,
                   domains_summary, svars, xvars>>

\* lines 228-234: the optional landing slide
LandingSlide ==
    /\ op = "build" /\ pc = "landing"
    /\ deck' = IF cfg.landing
               THEN Append(deck, BuiltSlide("title_content", "instrumentation_slide", 0))
               ELSE deck
    /\ pc' = "domains"
    /\ i' = 1
    /\ UNCHANGED <<op, err, tvars, lvars, slides, results, saved, bvars, svars, xvars>>

\* lines 237-243: one domain slide
DomainSlide ==
    /\ op = "build" /\ pc = "domains"
    /\ i <= Len(req_data)
    /\ deck' = Append(deck, BuiltSlide("title_content", "domain_slide", i))
    /\ i' = i + 1
    /\ UNCHANGED <<op, pc, err, tvars, lvars, slides, results, saved, bvars, svars, xvars>>

DomainsDone ==
    /\ op = "build" /\ pc = "domains"
    /\ i > Len(req_data)
    /\ pc' = "screenshots"
    /\ i' = 1
    /\ UNCHANGED <<op, err, tvars, lvars, gvars, bvars, svars, xvars>>

\* a plausible slip: the entries are taken last to first
ScreenshotEntryReversed(shots, k) == shots[Len(shots) + 1 - k]

\* line 246: for ss in cfg.get("screenshot_slides", []), the k-th entry
ScreenshotEntry(shots, k) == shots[k]

\* a plausible slip: `else` in place of `elif ss.get("type") == "single"`
ScreenshotBuilderElseSingle(ty) ==
    IF ty = "two_image" THEN "two_image_slide" ELSE "instrumentation_slide"

\* lines 247-256: the slide builder an entry's ss.get("type") selects; "None"
\* when neither branch of the if / elif is taken
ScreenshotBuilder(ty) ==
    CASE ty = "two_image" -> "two_image_slide"
      [] ty = "single"    -> "instrumentation_slide"
      [] OTHER            -> "None"

\* lines 246-256: one entry of cfg["screenshot_slides"]
ScreenshotSlide ==
    /\ op = "build" /\ pc = "screenshots"
    /\ i <= Len(cfg.screenshot_slides)
    /\ LET builder == ScreenshotBuilder(ScreenshotEntry(cfg.screenshot_slides, i))
       IN  deck' = CASE builder = "two_image_slide" ->
                          Append(deck, BuiltSlide("two_img", builder, i))
                     [] builder = "instrumentation_slide" ->
                          Append(deck, BuiltSlide("title_content", builder, i))
                     [] OTHER -> deck
    /\ i' = i + 1
    /\ UNCHANGED <<op, pc, err, tvars, lvars, slides, results, saved, bvars, svars, xvars>>

\* lines 259-267: the optional GCC slide
GccSlide ==
    /\ op = "build" /\ pc = "screenshots"
    /\ i > Len(cfg.screenshot_slides)
    /\ deck' = IF cfg.gcc
               THEN Append(deck, BuiltSlide("title_content", "gcc_slide", 0))
               ELSE deck
    /\ pc' = "closing"
    /\ UNCHANGED <<op, err, tvars, i, lvars, slides, results, saved, bvars, svars, xvars>>

\* lines 270-272: the closing slide, then return
ClosingSlide ==
    /\ op = "build" /\ pc = "closing"
    /\ deck' = Append(deck, BuiltSlide("title_center", "closing_slide", 0))
    /\ pc' = "returned"
    /\ UNCHANGED <<op, err, tvars, i, lvars, slides, results, saved, bvars, svars, xvars>>

InitBuild ==
    /\ op = "build" /\ pc = "title" /\ err = NoErr /\ i = 1
    /\ IdleTemplate /\ IdleLayout /\ IdleGeneric /\ IdleSummary
    /\ IdleExtract /\ IdleImage /\ IdleConcurrent /\ IdleCards
    /\ cfg \in Cfgs
    /\ req_data \in ReqDatas
    /\ domains_summary = <<>>
    /\ table = NoTable

NextBuild ==
    \/ TitleSlide \/ SummariseDomain \/ CoverageSlide \/ LandingSlide
    \/ DomainSlide \/ DomainsDone \/ ScreenshotSlide \/ GccSlide \/ ClosingSlide

SpecBuild == InitBuild /\ [][NextBuild]_vars


-----------------------------------------------------------------------------
(* Text: str.strip and str.lower on sequences of characters                *)

Whitespace == {" ", "\t", "\n"}

UpperCase == <<"A", "B", "C", "D", "E", "F", "G", "H", "I", "J", "K", "L", "M", "N", "O", "P", "Q", "R", "S", "T", "U", "V", "W", "X", "Y", "Z">>

LowerCase == <<"a", "b", "c", "d", "e", "f", "g", "h", "i", "j", "k", "l", "m", "n", "o", "p", "q", "r", "s", "t", "u", "v", "w", "x", "y", "z">>

\* one character of str.lower(): a capital maps to its small letter, anything
\* else (a glyph, a digit, punctuation) to itself
LowerChar(c) ==
    IF \E k \in 1..Len(UpperCase) : UpperCase[k] = c
    THEN LowerCase[CHOOSE k \in 1..Len(UpperCase) : UpperCase[k] = c]
    ELSE c

Lower(s) == [k \in 1..Len(s) |-> LowerChar(s[k])]

RECURSIVE LStrip(_)
LStrip(s) ==
    IF s # <<>> /\ Head(s) \in Whitespace THEN LStrip(Tail(s)) ELSE s

RECURSIVE RStrip(_)
RStrip(s) ==
    IF s # <<>> /\ s[Len(s)] \in Whitespace
    THEN RStrip(SubSeq(s, 1, Len(s) - 1))
    ELSE s

\* str.strip(): whitespace off both ends
Strip(s) == RStrip(LStrip(s))

\* " ".join(words)
RECURSIVE JoinWords(_)
JoinWords(words) ==
    IF words = <<>> THEN <<>>
    ELSE IF Len(words) = 1 THEN words[1]
    ELSE words[1] \o <<" ">> \o JoinWords(Tail(words))

-----------------------------------------------------------------------------
(* Status normalisation: excel_parser._normalise_status                    *)

\* the keywords of lines 58, 60 and 62, looked for in the lower-cased text
KwAvailableNow == {<<"n", "o", "w">>, <<"a", "v", "a", "i", "l", "a", "b", "l", "e">>, <<"y", "e", "s">>}

KwPartially == {<<"p", "a", "r", "t", "i", "a", "l">>}

KwOnRoadmap == {<<"r", "o", "a", "d", "m", "a", "p">>, <<"p", "l", "a", "n", "n", "e", "d">>, <<"f", "u", "t", "u", "r", "e">>}

\* any(k in lo for k in group)
HasKeyword(lo, group) == \E k \in group : Contains(lo, k)

\* a plausible slip: the marker is prepended without looking for it first
MarkedAlways(marker, v) == <<marker, " ">> \o v

\* f"{marker} {v}" if marker not in v else v
Marked(marker, v) == IF Contains(v, <<marker>>) THEN v ELSE <<marker, " ">> \o v

\* a plausible slip: the partial group is tested before the available group
NormaliseStatusPartialFirst(val) ==
    LET v  == Strip(val)
        lo == Lower(v)
    IN  IF HasKeyword(lo, KwPartially) THEN Marked(GlyphPartial, v)
        ELSE IF HasKeyword(lo, KwAvailableNow) THEN Marked(GlyphNow, v)
        ELSE IF HasKeyword(lo, KwOnRoadmap) THEN Marked(GlyphRoadmap, v)
        ELSE v

\* _normalise_status(val), lines 54-64
NormaliseStatus(val) ==
    LET v  == Strip(val)
        lo == Lower(v)
    IN  IF HasKeyword(lo, KwAvailableNow) THEN Marked(GlyphNow, v)
        ELSE IF HasKeyword(lo, KwPartially) THEN Marked(GlyphPartial, v)
        ELSE IF HasKeyword(lo, KwOnRoadmap) THEN Marked(GlyphRoadmap, v)
        ELSE v

\* the raw statuses explored: optional padding, an optional marker, up to
\* MaxWords words
MaxWords == 2

WordYes == <<"Y", "e", "s", ",">>
WordInProduction == <<"i", "n", " ", "p", "r", "o", "d", "u", "c", "t", "i", "o", "n">>
WordPartial == <<"P", "a", "r", "t", "i", "a", "l">>
WordPlanned == <<"p", "l", "a", "n", "n", "e", "d">>
WordAvailable == <<"A", "v", "a", "i", "l", "a", "b", "l", "e">>
WordTbd == <<"T", "B", "D">>
WordFuture == <<"F", "U", "T", "U", "R", "E">>

StatusWords ==
    {WordYes, WordInProduction, StatusUnknown, WordPartial, WordPlanned,
     WordAvailable, WordTbd, WordFuture}

MarkerPrefixes ==
    {<<>>, <<GlyphNow, " ">>, <<GlyphPartial, " ">>, <<GlyphRoadmap, " ">>}

Paddings == {<<>>, <<" ">>}

RawStatuses ==
    {pad \o pre \o JoinWords(words) \o pad :
        pad \in Paddings, pre \in MarkerPrefixes,
        words \in SeqsUpTo(StatusWords, MaxWords)}

\* one call of _normalise_status
Normalise ==
    /\ op = "normalise" /\ pc = "start"
    /\ normalised' = [normalised EXCEPT !.done = TRUE, !.value = NormaliseStatus(raw)]
    /\ pc' = "returned"
    /\ UNCHANGED <<op, err, tvars, i, lvars, gvars, bvars, svars, raw, pvars,
                   wvars, ivars, builds, cvars>>

\* a second call of _normalise_status, on the value the first returned
NormaliseAgain ==
    /\ op = "normalise" /\ pc = "returned"
    /\ ~normalised.again
    /\ normalised' = [normalised EXCEPT !.again = TRUE,
                                        !.second = NormaliseStatus(normalised.value)]
    /\ UNCHANGED <<op, pc, err, tvars, i, lvars, gvars, bvars, svars, raw, pvars,
                   wvars, ivars, builds, cvars>>

InitNormalise ==
    /\ op = "normalise" /\ pc = "start" /\ err = NoErr /\ i = 1
    /\ IdleTemplate /\ IdleLayout /\ IdleGeneric /\ IdleBuild /\ IdleSummary
    /\ IdleSheet /\ IdleWorkbook /\ IdleImage /\ IdleConcurrent /\ IdleCards
    /\ raw \in RawStatuses
    /\ normalised = NoNormalised

NextNormalise == Normalise \/ NormaliseAgain

SpecNormalise == InitNormalise /\ [][NextNormalise]_vars


-----------------------------------------------------------------------------
(* Sheet parsing: excel_parser._match_col and _parse_sheet                 *)
(*                                                                         *)
(* A sheet is the list of its rows, a row the list of its cells, all rows  *)
(* of a sheet as wide as the sheet.  A cell is its text, or NoneCell for   *)
(* an empty cell (None).  A requirement is [requirement, description,      *)
(* status, signal, domain]; domain stands for the "_domain" key: <<>> when *)
(* the key is absent, <<value>> when it is present.                        *)

NoneCell == <<"<None>">>

\* truth value of a cell: None and "" are false
Truthy(cell) == cell # NoneCell /\ cell # <<>>

\* _ALIASES, lines 36-42; the keys in the order of the dict literal
RoleOrder == <<"requirement", "description", "status", "signal", "domain">>

Aliases(role) ==
    CASE role = "requirement" ->
        {<<"r", "e", "q", "u", "i", "r", "e", "m", "e", "n", "t">>,
         <<"r", "e", "q">>,
         <<"r", "e", "q", "u", "i", "r", "e", "m", "e", "n", "t", " ", "n", "a", "m", "e">>,
         <<"n", "a", "m", "e">>,
         <<"c", "a", "p", "a", "b", "i", "l", "i", "t", "y">>}
      [] role = "description" ->
        {<<"d", "e", "s", "c", "r", "i", "p", "t", "i", "o", "n">>,
         <<"d", "e", "s", "c">>,
         <<"d", "e", "t", "a", "i", "l">>,
         <<"d", "e", "t", "a", "i", "l", "s">>,
         <<"n", "o", "t", "e", "s">>,
         <<"n", "o", "t", "e">>}
      [] role = "status" ->
        {<<"s", "t", "a", "t", "u", "s">>,
         <<"c", "o", "v", "e", "r", "a", "g", "e">>,
         <<"a", "v", "a", "i", "l", "a", "b", "i", "l", "i", "t", "y">>,
         <<"s", "t", "a", "t", "e">>,
         <<"r", "e", "s", "p", "o", "n", "s", "e">>}
      [] role = "signal" ->
        {<<"s", "i", "g", "n", "a", "l">>,
         <<"s", "i", "g", "n", "a", "l", " ", "t", "y", "p", "e">>,
         <<"t", "e", "l", "e", "m", "e", "t", "r", "y">>,
         <<"d", "a", "t", "a", " ", "t", "y", "p", "e">>,
         <<"t", "y", "p", "e">>}
      [] role = "domain" ->
        {<<"d", "o", "m", "a", "i", "n">>,
         <<"d", "o", "m", "a", "i", "n", " ", "n", "a", "m", "e">>,
         <<"c", "a", "t", "e", "g", "o", "r", "y">>,
         <<"g", "r", "o", "u", "p">>,
         <<"a", "r", "e", "a">>}

\* _match_col(header): the first role one of whose aliases is the stripped,
\* lower-cased header, "None" when there is none
MatchCol(header) ==
    LET h == Lower(Strip(header))
        hits == {k \in 1..Len(RoleOrder) : h \in Aliases(RoleOrder[k])}
    IN  IF hits = {} THEN "None"
        ELSE RoleOrder[CHOOSE k \in hits : \A j \in hits : k <= j]

\* mapping[key] = c
Put(mapping, key, c) ==
    [x \in (DOMAIN mapping) \cup {key} |-> IF x = key THEN c ELSE mapping[x]]

\* lines 81-87: the mapping of one row, built from column c (1-based here,
\* stored 0-based) on; a later column of the same role replaces an earlier one
RECURSIVE RowMapping(_, _, _)
RowMapping(row, c, mapping) ==
    IF c > Len(row) THEN mapping
    ELSE LET key == IF row[c] = NoneCell THEN "None" ELSE MatchCol(row[c])
         IN  RowMapping(row, c + 1,
                        IF key = "None" THEN mapping ELSE Put(mapping, key, c - 1))

\* line 88: len(mapping) >= 2
MinHeaderRoles == 2

IsHeader(row) == Cardinality(DOMAIN RowMapping(row, 1, <<>>)) >= MinHeaderRoles

\* lines 79-91: position (1-based) of the first header row at or after k, 0
\* when the loop ends without one
RECURSIVE FindHeaderFrom(_, _)
FindHeaderFrom(sheet, k) ==
    IF k > Len(sheet) THEN 0
    ELSE IF IsHeader(sheet[k]) THEN k
    ELSE FindHeaderFrom(sheet, k + 1)

\* row[col_map[role]] if role in col_map else None
\* a plausible slip: a role without column is read from the first column
CellOfFirstColumn(row, mapping, role) ==
    IF role \in DOMAIN mapping THEN row[mapping[role] + 1] ELSE row[1]

CellOf(row, mapping, role) ==
    IF role \in DOMAIN mapping THEN row[mapping[role] + 1] ELSE NoneCell

\* a plausible slip: only a missing requirement cell is skipped
SkipRowNoneOnly(req_name) == ~Truthy(req_name)

\* line 98: not req_name or str(req_name).strip() == ""
SkipRow(req_name) == ~Truthy(req_name) \/ Strip(req_name) = <<>>

\* str(cell).strip() if role in col_map and cell else ""
TextOf(row, mapping, role) ==
    IF Truthy(CellOf(row, mapping, role)) THEN Strip(CellOf(row, mapping, role))
    ELSE <<>>

\* lines 100-114: the requirement of one row
RowReq(row, mapping) ==
    [requirement |-> Strip(CellOf(row, mapping, "requirement")),
     description |-> TextOf(row, mapping, "description"),
     status      |-> IF Truthy(CellOf(row, mapping, "status"))
                     THEN NormaliseStatus(Strip(CellOf(row, mapping, "status")))
                     ELSE <<>>,
     signal      |-> TextOf(row, mapping, "signal"),
     domain      |-> IF Truthy(CellOf(row, mapping, "domain"))
                     THEN <<Strip(CellOf(row, mapping, "domain"))>>
                     ELSE <<>>]

\* lines 96-115: the requirements of the rows from position k on
RECURSIVE RowsReqs(_, _, _)
RowsReqs(sheet, k, mapping) ==
    IF k > Len(sheet) THEN <<>>
    ELSE (IF SkipRow(CellOf(sheet[k], mapping, "requirement")) THEN <<>>
          ELSE <<RowReq(sheet[k], mapping)>>)
         \o RowsReqs(sheet, k + 1, mapping)

\* _parse_sheet(ws) as a function of the rows
ParseSheet(sheet) ==
    LET h == FindHeaderFrom(sheet, 1)
    IN  IF h = 0 THEN <<>>
        ELSE RowsReqs(sheet, h + 1, RowMapping(sheet[h], 1, <<>>))

\* the rows explored
MaxRows == 3

HeaderReqStatusDomain == <<<<"C", "a", "p", "a", "b", "i", "l", "i", "t", "y">>, <<" ", "S", "T", "A", "T", "E", " ">>, <<"A", "r", "e", "a">>>>
HeaderNoRequirement == <<<<"N", "o", "t", "e", "s">>, <<"T", "e", "l", "e", "m", "e", "t", "r", "y">>, <<"G", "r", "o", "u", "p">>>>
RowSameRoleTwice == <<<<"N", "a", "m", "e">>, <<"R", "e", "q">>, <<"n", "/", "a">>>>
RowTitle == <<<<"C", "o", "v", "e", "r", "a", "g", "e", " ", "r", "e", "p", "o", "r", "t">>, NoneCell, NoneCell>>
RowTracing == <<<<"T", "r", "a", "c", "i", "n", "g">>, <<"Y", "e", "s">>, <<"A", "P", "I">>>>
RowLogs == <<<<" ", "L", "o", "g", "s", " ">>, NoneCell, <<" ", "D", "a", "t", "a", " ">>>>
RowNoName == <<NoneCell, <<"P", "a", "r", "t", "i", "a", "l">>, <<"A", "P", "I">>>>
RowBlankName == <<<<" ", " ">>, <<"p", "l", "a", "n", "n", "e", "d">>, <<>>>>
RowMetrics == <<<<"M", "e", "t", "r", "i", "c", "s">>, StatusUnknown, NoneCell>>

SheetRows ==
    {HeaderReqStatusDomain, HeaderNoRequirement, RowSameRoleTwice, RowTitle,
     RowTracing, RowLogs, RowNoName, RowBlankName, RowMetrics}

\* lines 72-94: read the rows, look for the header
FindHeader ==
    /\ op = "sheet" /\ pc = "start"
    /\ LET h == FindHeaderFrom(ws, 1)
       IN  IF h = 0
           THEN /\ sheet_reqs' = [done |-> TRUE, reqs |-> <<>>]
                /\ pc' = "returned"
                /\ UNCHANGED <<header_idx, col_map, i>>
           ELSE /\ header_idx' = h - 1
                /\ col_map' = RowMapping(ws[h], 1, <<>>)
                /\ i' = h + 1
                /\ pc' = "rows"
                /\ UNCHANGED sheet_reqs
    /\ UNCHANGED <<op, err, tvars, lvars, gvars, bvars, svars, nvars, ws,
                   wvars, ivars, builds, cvars>>

\* lines 96-115: one data row
ParseRow ==
    /\ op = "sheet" /\ pc = "rows"
    /\ i <= Len(ws)
    /\ sheet_reqs' =
          IF SkipRow(CellOf(ws[i], col_map, "requirement")) THEN sheet_reqs
          ELSE [sheet_reqs EXCEPT !.reqs = Append(@, RowReq(ws[i], col_map))]
    /\ i' = i + 1
    /\ UNCHANGED <<op, pc, err, tvars, lvars, gvars, bvars, svars, nvars, ws,
                   header_idx, col_map, wvars, ivars, builds, cvars>>

\* line 116: return reqs
ReturnReqs ==
    /\ op = "sheet" /\ pc = "rows"
    /\ i > Len(ws)
    /\ sheet_reqs' = [sheet_reqs EXCEPT !.done = TRUE]
    /\ pc' = "returned"
    /\ UNCHANGED <<op, err, tvars, i, lvars, gvars, bvars, svars, nvars, ws,
                   header_idx, col_map, wvars, ivars, builds, cvars>>

InitSheet ==
    /\ op = "sheet" /\ pc = "start" /\ err = NoErr /\ i = 1
    /\ IdleTemplate /\ IdleLayout /\ IdleGeneric /\ IdleBuild /\ IdleSummary
    /\ IdleNormalise /\ IdleWorkbook /\ IdleImage /\ IdleConcurrent /\ IdleCards
    /\ ws \in SeqsUpTo(SheetRows, MaxRows)
    /\ header_idx = -1
    /\ col_map = <<>>
    /\ sheet_reqs = NoSheetReqs

NextSheet == FindHeader \/ ParseRow \/ ReturnReqs

SpecSheet == InitSheet /\ [][NextSheet]_vars


-----------------------------------------------------------------------------
(* Workbook extraction: excel_parser.parse_excel                           *)
(*                                                                         *)
(* A workbook is [path, sheets], sheets the list of [name, rows] in        *)
(* workbook order.  all_reqs holds [sheet_name, reqs] pairs; a returned    *)
(* domain is [name, description, reqs], its requirements without the       *)
(* "_domain" key.                                                          *)

\* line 136
SkipNames ==
    {<<"s", "u", "m", "m", "a", "r", "y">>,
     <<"o", "v", "e", "r", "v", "i", "e", "w">>,
     <<"m", "e", "t", "a", "d", "a", "t", "a">>,
     <<"r", "e", "a", "d", "m", "e">>,
     <<"i", "n", "s", "t", "r", "u", "c", "t", "i", "o", "n", "s">>,
     <<"c", "o", "v", "e", "r">>}

\* line 137: s.strip().lower() in skip
IsSkipped(sheet_name) == Lower(Strip(sheet_name)) \in SkipNames

\* domain_sheets: the sheets whose name is not skipped, in workbook order
DomainSheets(sheets) == SelectSeq(sheets, LAMBDA s : ~IsSkipped(s.name))

\* a plausible slip: every parsed sheet is recorded, rows or not
ProductiveAlways(sheet_rows) == TRUE

\* line 143: if reqs
Productive(sheet_rows) == sheet_rows # <<>>

\* r.pop("_domain", ...): the requirement without the key
Pop(r) ==
    [requirement |-> r.requirement, description |-> r.description,
     status |-> r.status, signal |-> r.signal]

PopAll(rs) == [k \in 1..Len(rs) |-> Pop(rs[k])]

Uncategorized == <<"U", "n", "c", "a", "t", "e", "g", "o", "r", "i", "z", "e", "d">>

\* the value r.pop("_domain", "Uncategorized") returns
DomainKey(r) == IF r.domain = <<>> THEN Uncategorized ELSE r.domain[1]

\* line 153: any("_domain" in r for r in reqs)
HasDomain(rs) == \E k \in 1..Len(rs) : rs[k].domain # <<>>

\* a plausible slip: a new group is put in front of the groups found so far
AddToGroupNewFirst(groups, dom, r) ==
    IF \E g \in 1..Len(groups) : groups[g].key = dom
    THEN [g \in 1..Len(groups) |->
            IF groups[g].key = dom
            THEN [groups[g] EXCEPT !.reqs = Append(@, r)]
            ELSE groups[g]]
    ELSE <<[key |-> dom, reqs |-> <<r>>]>> \o groups

\* groups.setdefault(dom, []).append(r) on an OrderedDict: a new key goes to
\* the end, an existing one keeps its place
AddToGroup(groups, dom, r) ==
    IF \E g \in 1..Len(groups) : groups[g].key = dom
    THEN [g \in 1..Len(groups) |->
            IF groups[g].key = dom
            THEN [groups[g] EXCEPT !.reqs = Append(@, r)]
            ELSE groups[g]]
    ELSE Append(groups, [key |-> dom, reqs |-> <<r>>])

\* lines 157-159: the loop over the requirements from position k on
RECURSIVE GroupFrom(_, _, _)
GroupFrom(rs, k, groups) ==
    IF k > Len(rs) THEN groups
    ELSE GroupFrom(rs, k + 1, AddToGroup(groups, DomainKey(rs[k]), Pop(rs[k])))

TextRequirements == <<" ", "r", "e", "q", "u", "i", "r", "e", "m", "e", "n", "t", "s">>

\* f"{n} requirements"
CountText(n) == Str(n) \o TextRequirements

\* lines 160-167
GroupedResult(rs) ==
    LET groups == GroupFrom(rs, 1, <<>>)
    IN  [g \in 1..Len(groups) |->
            [name        |-> groups[g].key,
             description |-> CountText(Len(groups[g].reqs)),
             reqs        |-> groups[g].reqs]]

TextDomain == <<"D", "o", "m", "a", "i", "n", " ">>
TextOf_ == <<" ", "o", "f", " ">>
TextDot == <<" ", "·", " ">>

\* a plausible slip: enumerate(all_reqs) without the start value
DomainTitleZeroBased(k, n, sheet_name) ==
    TextDomain \o Str(k - 1) \o TextOf_ \o Str(n) \o TextDot \o sheet_name

\* line 176: f"Domain {i} of {len(all_reqs)} · {sheet_name}", i counted from 1
DomainTitle(k, n, sheet_name) ==
    TextDomain \o Str(k) \o TextOf_ \o Str(n) \o TextDot \o sheet_name

\* lines 170-181
PerSheetResult(all) ==
    [k \in 1..Len(all) |->
        [name        |-> DomainTitle(k, Len(all), all[k].sheet_name),
         description |-> CountText(Len(all[k].reqs)),
         reqs        |-> PopAll(all[k].reqs)]]

\* line 148
NoRowsError(path) == [kind |-> "ValueError", value |-> path, valid |-> <<>>]

\* the workbooks explored: up to MaxSheets sheets; a sheet's name is an
\* ordinary one, one of the skipped names in some spelling, or one that only
\* resembles a skipped name
MaxSheets == 2
MaxCards == 8

PlainNames == <<<<"R", "e", "q", "s">>,
      <<"O", "p", "s">>,
      <<"I", "n", "f", "r", "a">>,
      <<"E", "x", "t", "r", "a">>>>

SkippedNames == <<<<"S", "u", "m", "m", "a", "r", "y">>,
      <<" ", "C", "O", "V", "E", "R", " ">>,
      <<"R", "e", "a", "d", "M", "e">>,
      <<"o", "v", "e", "r", "v", "i", "e", "w">>>>

NearSkippedNames == <<<<"S", "u", "m", "m", "a", "r", "y", " ", "2">>,
      <<"C", "o", "v", "e", "r", "s">>,
      <<"R", "e", "a", "d", " ", "m", "e">>,
      <<"O", "v", "e", "r", "v", "i", "e", "w", "s">>>>

SheetName(kind, j) ==
    CASE kind = "plain" -> PlainNames[j]
      [] kind = "skipped" -> SkippedNames[j]
      [] kind = "near" -> NearSkippedNames[j]

RowErrors == <<<<"E", "r", "r", "o", "r", "s">>, <<"P", "a", "r", "t", "i", "a", "l">>, <<"A", "P", "I">>>>

SheetContents ==
    {<<>>,
     <<RowTitle, RowTracing>>,
     <<HeaderNoRequirement, RowTracing>>,
     <<HeaderReqStatusDomain, RowMetrics>>,
     <<RowTitle, HeaderReqStatusDomain, RowTracing, RowMetrics>>,
     <<HeaderReqStatusDomain, RowTracing, RowLogs, RowErrors>>}

NamedSheets ==
    {[kind |-> kd, rows |-> c] :
        kd \in {"plain", "skipped", "near"}, c \in SheetContents}

WorkbookAt(p, q) ==
    [path   |-> p,
     sheets |-> [j \in 1..Len(q) |->
                   [name |-> SheetName(q[j].kind, j), rows |-> q[j].rows]]]

Workbooks ==
    {WorkbookAt("reqs.xlsx", q) : q \in SeqsUpTo(NamedSheets, MaxSheets)}
    \cup {WorkbookAt("in/coverage.xlsx", q) : q \in SeqsUpTo(NamedSheets, 1)}

\* lines 140-144: one sheet of domain_sheets
ParseNextSheet ==
    /\ op = "excel" /\ pc = "sheets"
    /\ i <= Len(DomainSheets(wb.sheets))
    /\ LET sheet == DomainSheets(wb.sheets)[i]
           rs    == ParseSheet(sheet.rows)
       IN  all_reqs' = IF Productive(rs)
                       THEN Append(all_reqs, [sheet_name |-> sheet.name, reqs |-> rs])
                       ELSE all_reqs
    /\ i' = i + 1
    /\ UNCHANGED <<op, pc, err, tvars, lvars, gvars, bvars, svars, nvars, pvars,
                   wb, result, ivars, builds, cvars>>

\* lines 147-148: no sheet produced a row
RaiseNoRows ==
    /\ op = "excel" /\ pc = "sheets"
    /\ i > Len(DomainSheets(wb.sheets))
    /\ all_reqs = <<>>
    /\ err' = NoRowsError(wb.path)
    /\ pc' = "raised"
    /\ UNCHANGED <<op, tvars, i, lvars, gvars, bvars, svars, nvars, pvars,
                   wvars, ivars, builds, cvars>>

\* lines 151-167: one productive sheet with a domain value: group its rows
GroupByDomain ==
    /\ op = "excel" /\ pc = "sheets"
    /\ i > Len(DomainSheets(wb.sheets))
    /\ Len(all_reqs) = 1
    /\ HasDomain(all_reqs[1].reqs)
    /\ result' = GroupedResult(all_reqs[1].reqs)
    /\ all_reqs' = [all_reqs EXCEPT ![1].reqs = PopAll(@)]
    /\ pc' = "returned"
    /\ UNCHANGED <<op, err, tvars, i, lvars, gvars, bvars, svars, nvars, pvars,
                   wb, ivars, builds, cvars>>

\* lines 170-181: one domain for each productive sheet
DomainPerSheet ==
    /\ op = "excel" /\ pc = "sheets"
    /\ i > Len(DomainSheets(wb.sheets))
    /\ all_reqs # <<>>
    /\ ~(Len(all_reqs) = 1 /\ HasDomain(all_reqs[1].reqs))
    /\ result' = PerSheetResult(all_reqs)
    /\ all_reqs' = [k \in 1..Len(all_reqs) |->
                       [all_reqs[k] EXCEPT !.reqs = PopAll(@)]]
    /\ pc' = "returned"
    /\ UNCHANGED <<op, err, tvars, i, lvars, gvars, bvars, svars, nvars, pvars,
                   wb, ivars, builds, cvars>>

\* parse_excel after load_workbook returned (line 132)
InitExcel ==
    /\ op = "excel" /\ pc = "sheets" /\ err = NoErr /\ i = 1
    /\ IdleTemplate /\ IdleLayout /\ IdleGeneric /\ IdleBuild /\ IdleSummary
    /\ IdleNormalise /\ IdleSheet /\ IdleImage /\ IdleConcurrent /\ IdleCards
    /\ wb \in Workbooks
    /\ all_reqs = <<>>
    /\ result = <<>>

NextExcel == ParseNextSheet \/ RaiseNoRows \/ GroupByDomain \/ DomainPerSheet

SpecExcel == InitExcel /\ [][NextExcel]_vars


-----------------------------------------------------------------------------
(* Slides with images: generic_slides.render_image, render_icon_bullets,   *)
(* render_two_image; helpers.add_img through slide_builder's               *)
(* instrumentation_slide and two_image_slide                               *)
(*                                                                         *)
(* img_spec is [fn, paths, caption]: the function drawing the slide, what  *)
(* is at each image path it is given, whether a caption text is given.  A  *)
(* path is "" (no path given), "missing" (nothing there), "file" (an image *)
(* file) or "dir" (a directory).                                           *)

PathStates == {"", "missing", "file", "dir"}

\* os.path.exists(path)
PathExists(p) == p \in {"file", "dir"}

\* os.path.isfile(path)
IsFile(p) == p = "file"

ImageFns ==
    {"render_image", "render_icon_bullets", "render_two_image",
     "instrumentation_slide", "two_image_slide"}

\* how many image paths a function reads
ImageCount(fn) == IF fn \in {"render_two_image", "two_image_slide"} THEN 2 ELSE 1

\* a plausible slip: the picture is added whenever a path is given
PictureWantedUnchecked(fn, p) == p # ""

\* the test in front of add_picture: `path and os.path.exists(path)` in
\* render_image (line 198) and add_img (line 144), `path and
\* os.path.isfile(path)` in render_icon_bullets (350) and render_two_image (452)
PictureWanted(fn, p) ==
    /\ p # ""
    /\ IF fn \in {"render_image", "instrumentation_slide", "two_image_slide"}
       THEN PathExists(p)
       ELSE IsFile(p)

\* shapes.add_picture(path, ...): opens the file; "none" when it is an image
AddPictureError(p) ==
    CASE p = "file" -> "none"
      [] p = "dir" -> "IsADirectoryError"
      [] OTHER -> "FileNotFoundError"

\* _new and the title placeholder: the slide is appended before any image is
\* looked at
NewImageSlide ==
    /\ op = "image" /\ pc = "start"
    /\ img_slide' = [img_slide EXCEPT !.appended = TRUE, !.title = TRUE]
    /\ i' = 1
    /\ pc' = "pictures"
    /\ UNCHANGED <<op, err, tvars, lvars, gvars, bvars, svars, nvars, pvars,
                   wvars, img_spec, builds, cvars>>

\* one image: the existence test, add_picture, and what the function draws
\* with it (the side's caption in render_two_image, the image caption in
\* render_icon_bullets); add_img prints a warning when it adds nothing
PlacePicture ==
    /\ op = "image" /\ pc = "pictures"
    /\ i <= Len(img_spec.paths)
    /\ LET p  == img_spec.paths[i]
           fn == img_spec.fn
       IN  IF PictureWanted(fn, p) /\ AddPictureError(p) # "none"
           THEN /\ err' = Raise(AddPictureError(p))
                /\ pc' = "raised"
                /\ UNCHANGED <<img_slide, i>>
           ELSE /\ img_slide' =
                      [img_slide EXCEPT
                         !.pictures = IF PictureWanted(fn, p) THEN @ + 1 ELSE @,
                         !.warnings =
                            IF fn \in {"instrumentation_slide", "two_image_slide"}
                                  /\ ~PictureWanted(fn, p)
                            THEN @ + 1 ELSE @,
                         !.captions =
                            IF img_spec.caption
                                  /\ \/ fn = "render_two_image"
                                     \/ fn = "render_icon_bullets" /\ PictureWanted(fn, p)
                            THEN @ + 1 ELSE @]
                /\ i' = i + 1
                /\ UNCHANGED <<pc, err>>
    /\ UNCHANGED <<op, tvars, lvars, gvars, bvars, svars, nvars, pvars, wvars,
                   img_spec, builds, cvars>>

\* what follows the images: render_image's caption (lines 201-203),
\* two_image_slide's two captions (lines 153-154); then return
FinishImageSlide ==
    /\ op = "image" /\ pc = "pictures"
    /\ i > Len(img_spec.paths)
    /\ img_slide' =
          [img_slide EXCEPT
             !.captions =
                CASE img_spec.fn = "render_image" /\ img_spec.caption -> @ + 1
                  [] img_spec.fn = "two_image_slide" -> @ + 2
                  [] OTHER -> @]
    /\ pc' = "returned"
    /\ UNCHANGED <<op, err, tvars, i, lvars, gvars, bvars, svars, nvars, pvars,
                   wvars, img_spec, builds, cvars>>

InitImage ==
    /\ op = "image" /\ pc = "start" /\ err = NoErr /\ i = 1
    /\ IdleTemplate /\ IdleLayout /\ IdleGeneric /\ IdleBuild /\ IdleSummary
    /\ IdleExtract /\ IdleConcurrent /\ IdleCards
    /\ img_spec \in {[fn |-> fn, paths |-> ps, caption |-> c] :
                        fn \in ImageFns,
                        ps \in SeqsUpTo(PathStates, 2),
                        c \in BOOLEAN}
    /\ Len(img_spec.paths) = ImageCount(img_spec.fn)
    /\ img_slide = NoImgSlide

NextImage == NewImageSlide \/ PlacePicture \/ FinishImageSlide

SpecImage == InitImage /\ [][NextImage]_vars


-----------------------------------------------------------------------------
(* Two concurrent loads: builder._load_template_clean run by two builds    *)
(*                                                                         *)
(* builds[p] is [pc, template, buf, prs, err] of build p.  The temp path   *)
(* of the .potx branch is the same for every build: tmpfile is shared.     *)
(* Each file operation is taken as one step; the steps of the two builds   *)
(* interleave freely.                                                      *)

Procs == {1, 2}

NoBuf == [ext |-> "", sldIdLst |-> <<>>, rels |-> {}, nLayouts |-> 0]

\* the templates of build p: the two builds read different files, told apart
\* by their number of layouts
TemplatesOf(p) ==
    {TemplateOf(ext, kinds, p) :
        ext \in {".pptx", ".potx"}, kinds \in {<<>>, <<"related">>}}

\* lines 52-59 on a presentation no other build can reach: every slide
\* reference and its relationship removed
ClearedPrs(p) ==
    [sldIdLst |-> <<>>,
     rels     |-> p.rels \ {p.sldIdLst[k].rId : k \in 1..Len(p.sldIdLst)},
     layouts  |-> p.layouts]

\* line 33: shutil.copy2(path, tmp)
CopyTemplate(p) ==
    /\ op = "concurrent"
    /\ builds[p].pc = "start"
    /\ builds[p].template.ext = ".potx"
    /\ tmpfile' = builds[p].template
    /\ builds' = [builds EXCEPT ![p].pc = "copied"]
    /\ UNCHANGED <<op, pc, err, template, prs, slide_id_list, i, lvars, gvars,
                   bvars, svars, nvars, pvars, wvars, ivars, cvars>>

\* lines 36-45: the archive at tmp is read and patched into buf
PatchInMemory(p) ==
    /\ op = "concurrent"
    /\ builds[p].pc = "copied"
    /\ builds' = [builds EXCEPT ![p].buf = PatchedCopy(tmpfile),
                                ![p].pc = "patched"]
    /\ UNCHANGED <<op, pc, err, tvars, i, lvars, gvars, bvars, svars, nvars,
                   pvars, wvars, ivars, cvars>>

\* lines 46-47: buf is written over tmp
WritePatched(p) ==
    /\ op = "concurrent"
    /\ builds[p].pc = "patched"
    /\ tmpfile' = builds[p].buf
    /\ builds' = [builds EXCEPT ![p].pc = "written"]
    /\ UNCHANGED <<op, pc, err, template, prs, slide_id_list, i, lvars, gvars,
                   bvars, svars, nvars, pvars, wvars, ivars, cvars>>

\* line 49: Presentation(path), path being tmp in the .potx branch; a file
\* whose content type is still the template one is refused
OpenPresentation(p) ==
    /\ op = "concurrent"
    /\ \/ builds[p].pc = "written"
       \/ builds[p].pc = "start" /\ builds[p].template.ext = ".pptx"
    /\ LET file == IF builds[p].pc = "written" THEN tmpfile
                   ELSE builds[p].template
       IN  builds' =
              IF file.ext = ".pptx"
              THEN [builds EXCEPT ![p].prs = Presentation(file),
                                  ![p].pc = "opened"]
              ELSE [builds EXCEPT ![p].err = "ValueError",
                                  ![p].pc = "raised"]
    /\ UNCHANGED <<op, pc, err, tvars, i, lvars, gvars, bvars, svars, nvars,
                   pvars, wvars, ivars, cvars>>

\* lines 50-62: the slides are removed and prs is returned
ClearSlides(p) ==
    /\ op = "concurrent"
    /\ builds[p].pc = "opened"
    /\ builds' = [builds EXCEPT ![p].prs = ClearedPrs(@),
                                ![p].pc = "returned"]
    /\ UNCHANGED <<op, pc, err, tvars, i, lvars, gvars, bvars, svars, nvars,
                   pvars, wvars, ivars, cvars>>

InitConcurrent ==
    /\ op = "concurrent" /\ pc = "running" /\ err = NoErr /\ i = 1
    /\ IdleLayout /\ IdleGeneric /\ IdleBuild /\ IdleSummary
    /\ IdleExtract /\ IdleImage /\ IdleCards
    /\ template = NoTemplate
    /\ tmpfile = NoBuf
    /\ prs = NoPrs
    /\ slide_id_list = <<>>
    /\ builds \in [Procs -> [pc : {"start"}, template : UNION {TemplatesOf(p) : p \in Procs},
                             buf : {NoBuf}, prs : {NoPrs}, err : {"none"}]]
    /\ \A p \in Procs : builds[p].template \in TemplatesOf(p)

NextConcurrent ==
    \E p \in Procs :
        \/ CopyTemplate(p)
        \/ PatchInMemory(p)
        \/ WritePatched(p)
        \/ OpenPresentation(p)
        \/ ClearSlides(p)

SpecConcurrent == InitConcurrent /\ [][NextConcurrent]_vars


-----------------------------------------------------------------------------
(* render_card_grid (generic_slides.py, lines 300-329): the geometry of    *)
(* the grid.  Lengths are in EMU, as the shapes store them; the code works *)
(* in inches and converts with Inches(), which truncates to whole EMU.     *)
(* Arguments of Inches are given here in hundredths of an inch.            *)

\* pptx.util.Inches as _card calls it (lines 280-281): 914400 EMU per inch
Inches(hundredths) == hundredths * 9144

\* line 313: card_w = 12.0 / cols - 0.2
CardW(cols) == Inches(1200) \div cols - Inches(20)

\* line 314: card_h = 4.5 / rows - 0.15 (rows > 0)
CardH(rows) == Inches(450) \div rows - Inches(15)

\* lines 274-275
CardColors == <<"TEAL", "GREEN", "ORANGE", "9B59B6", "E74C3C", "3495DB">>

\* lines 318-324: the card drawn for the item at 0-based index idx;
\* x = 0.6 + col * (card_w + 0.2), y = start_y + row * (card_h + 0.15) with
\* start_y = 2.0, card_w + 0.2 = 12.0 / cols and card_h + 0.15 = 4.5 / rows
PlacedCard(idx, cols, rows) ==
    LET col == idx % cols
        row == idx \div cols
    IN  [col |-> col, row |-> row,
         x |-> Inches(60) + (col * Inches(1200)) \div cols,
         y |-> Inches(200) + (row * Inches(450)) \div rows,
         w |-> CardW(cols), h |-> CardH(rows),
         bar_color |-> CardColors[(idx % Len(CardColors)) + 1]]

CardSpecs == [n : 0..MaxCards, footer : BOOLEAN]

\* lines 301-315: the slide is appended, the column and row counts and the
\* cell size are computed; line 314 divides by the row count
CardGridStart ==
    /\ op = "cards" /\ pc = "start"
    /\ LET n    == card_spec.n
           cols == CardGridCols(n)
           rows == CardGridRows(n)
       IN  /\ grid' = [grid EXCEPT !.appended = TRUE, !.cols = cols, !.rows = rows]
           /\ IF rows = 0
              THEN /\ err' = Raise("ZeroDivisionError")
                   /\ pc' = "raised"
              ELSE /\ pc' = "placing"
                   /\ UNCHANGED err
    /\ UNCHANGED <<op, tvars, i, lvars, gvars, bvars, svars, nvars, pvars,
                   wvars, ivars, builds, card_spec>>

\* lines 317-324: one iteration of the loop over the cards
PlaceCard ==
    /\ op = "cards" /\ pc = "placing"
    /\ Len(grid.cards) < card_spec.n
    /\ grid' = [grid EXCEPT
                  !.cards = Append(@, PlacedCard(Len(grid.cards), grid.cols, grid.rows))]
    /\ UNCHANGED <<op, pc, err, tvars, i, lvars, gvars, bvars, svars, nvars,
                   pvars, wvars, ivars, builds, card_spec>>

\* lines 326-329: the optional footer, then return
CardGridReturn ==
    /\ op = "cards" /\ pc = "placing"
    /\ Len(grid.cards) = card_spec.n
    /\ grid' = [grid EXCEPT !.footer = card_spec.footer]
    /\ pc' = "returned"
    /\ UNCHANGED <<op, err, tvars, i, lvars, gvars, bvars, svars, nvars,
                   pvars, wvars, ivars, builds, card_spec>>

InitCards ==
    /\ op = "cards" /\ pc = "start" /\ err = NoErr /\ i = 1
    /\ IdleTemplate /\ IdleLayout /\ IdleGeneric /\ IdleBuild /\ IdleSummary
    /\ IdleExtract /\ IdleImage /\ IdleConcurrent
    /\ card_spec \in CardSpecs
    /\ grid = NoGrid

NextCards == CardGridStart \/ PlaceCard \/ CardGridReturn

SpecCards == InitCards /\ [][NextCards]_vars

-----------------------------------------------------------------------------
(* Properties.                                                             *)

Finished == pc \in {"returned", "raised"}

\* C1: for every template, _load_template_clean returns (the assertion never
\* fires), the returned presentation has no slide and as many layouts as the
\* template file; it never returns with a slide left in the list.
C1_TemplateCleared ==
    op = "load" =>
        /\ Finished => pc = "returned" /\ err = NoErr
        /\ pc = "returned" =>
              /\ Len(prs.sldIdLst) = 0
              /\ Len(prs.layouts) = template.nLayouts
        /\ pc = "raised" => err.kind = "AssertionError" /\ Len(prs.sldIdLst) > 0

\* a template with the most slides, one of them with a dangling relationship,
\* has been cleared
C1_Witness ==
    /\ op = "load" /\ pc = "returned"
    /\ Len(template.sldIdLst) = MaxSlides
    /\ template.nLayouts > 0
    /\ \E n \in 1..Len(template.sldIdLst) :
          template.sldIdLst[n].rId # 0 /\ template.sldIdLst[n].rId \notin template.rels

Recognised(spec) == spec.type \in Range(RendererKeys)

Unrecognised(spec) == spec.type # NoType /\ spec.type \notin Range(RendererKeys)

AllRecognised(sp) == \A j \in 1..Len(sp) : Recognised(sp[j])

\* C2: for every list of specs with recognised types only, whatever their
\* content fields, render_all returns one handle per spec, in input order.
C2_OneHandlePerSpec ==
    (op = "generic" /\ AllRecognised(slides) /\ Finished) =>
        /\ pc = "returned"
        /\ Len(results) = Len(slides)
        /\ \A j \in 1..Len(results) : results[j] = j /\ deck[results[j]].from = j

FirstUnrecognised(sp, k) ==
    /\ k \in 1..Len(sp)
    /\ Unrecognised(sp[k])
    /\ \A j \in 1..(k - 1) : ~Unrecognised(sp[j])

\* C3: when the first unrecognised type is at position k, render_all raises at
\* that spec, with exactly the specs before it rendered and none after.
C3_StopsAtFirstUnknown ==
    \A k \in 1..Len(slides) :
        (op = "generic" /\ FirstUnrecognised(slides, k) /\ Finished) =>
            /\ pc = "raised"
            /\ i = k
            /\ err.kind = "ValueError"
            /\ Len(deck) = k - 1
            /\ \A j \in 1..Len(deck) : deck[j].from = j
            /\ ~saved.written

\* C4: the sixteen tags map to sixteen different renderers; a slide is only
\* ever appended for a spec whose type is one of them (or absent); any other
\* type ends render_slide with an error that carries the offending value and
\* the sixteen valid tags, and the failing call appends no slide.
C4_Dispatch ==
    /\ Len(RendererKeys) = 16
    /\ Cardinality({Renderers(t) : t \in Range(RendererKeys)} \ {"None"}) = 16
    /\ op = "generic" =>
          /\ \A j \in 1..Len(deck) :
                /\ ~Unrecognised(slides[deck[j].from])
                /\ deck[j].renderer = Renderers(SlideType(slides[deck[j].from]))
                /\ deck[j].renderer # "None"
          /\ \A k \in 1..Len(slides) :
                (Unrecognised(slides[k]) /\ i = k /\ pc # "rendering") =>
                    /\ pc = "raised"
                    /\ err.kind = "ValueError"
                    /\ err.value = slides[k].type
                    /\ Range(err.valid) = Range(RendererKeys)
                    /\ Len(deck) = k - 1
                    /\ \A j \in 1..Len(deck) : deck[j].from < k

\* an unknown type was rejected after an earlier slide had been rendered
C4_Witness ==
    /\ op = "generic" /\ pc = "raised"
    /\ err.kind = "ValueError" /\ err.value = "bogus"
    /\ Len(deck) = 1 /\ i = 2

\* C5: the document build_generic saves holds exactly one slide per supplied
\* spec, the j-th rendered from the j-th spec, and nothing else; every
\* renderer call appends exactly one slide to the document.
C5_ExactlyCallerSlides ==
    op = "generic" =>
        /\ saved.written =>
              /\ Len(saved.slides) = Len(slides)
              /\ \A j \in 1..Len(slides) :
                    /\ saved.slides[j].from = j
                    /\ saved.slides[j].renderer = Renderers(SlideType(slides[j]))
        /\ pc = "returned" => saved.written
        /\ Len(deck) = IF pc = "raised" /\ err.kind # "ValueError" THEN i ELSE i - 1
        /\ \A j \in 1..Len(deck) : deck[j].from = j

\* a deck of the longest list, with two different types, was saved
C5_Witness ==
    /\ op = "generic" /\ saved.written
    /\ Len(slides) = MaxSpecs
    /\ AllRecognised(slides)
    /\ slides[1].type # slides[2].type

Roles == Range(DefaultKeys)

\* C6: _layout_map raises nothing; each role gets the layout at its resolved
\* index when that index is valid for the layout list, else layout 0 with a
\* warning.
C6_NeverFailsHard ==
    op = "layout" =>
        /\ err = NoErr
        /\ pc # "raised"
        /\ \A key \in DOMAIN SL :
              IF PyIndexValid(prs.layouts, resolved[key])
              THEN SL[key] = PyGetItem(prs.layouts, resolved[key]) /\ key \notin warned
              ELSE SL[key] = 0 /\ key \in warned
        /\ pc = "returned" => Roles \subseteq DOMAIN SL

\* C7: an override replaces the default of its own role only; the other roles
\* keep 11 / 2 / 19; the returned map has all three roles, each bound to the
\* layout at its resolved index or to layout 0 after a warning.
C7_OverridesPerRole ==
    (op = "layout" /\ pc # "start") =>
        /\ Roles \subseteq DOMAIN resolved
        /\ \A key \in Roles :
              resolved[key] =
                 IF key \in DOMAIN overrides THEN overrides[key]
                 ELSE CASE key = "title_center"  -> DefaultTitleCenter
                        [] key = "title_content" -> DefaultTitleContent
                        [] key = "two_img"       -> DefaultTwoImg
        /\ pc = "returned" =>
              /\ Roles \subseteq DOMAIN SL
              /\ \A key \in Roles :
                    \/ key \notin warned /\ resolved[key] < Len(prs.layouts)
                         /\ SL[key] = PyGetItem(prs.layouts, resolved[key])
                    \/ key \in warned /\ resolved[key] >= Len(prs.layouts) /\ SL[key] = 0

\* one role overridden away from its default, another left at its default,
\* and the map returned
C7_Witness ==
    /\ op = "layout" /\ pc = "returned"
    /\ "title_center" \in DOMAIN overrides
    /\ overrides["title_center"] = 1
    /\ "two_img" \notin DOMAIN overrides
    /\ SL["title_center"] = 1
    /\ SL["two_img"] = DefaultTwoImg

\* reading a table cell back: the number its leading digits spell
DigitValue(c) == CHOOSE d \in 0..9 : Digits[d + 1] = c

IsDigit(c) == \E d \in 0..9 : Digits[d + 1] = c

RECURSIVE LeadingIntFrom(_, _)
LeadingIntFrom(cell, acc) ==
    IF cell = <<>> \/ ~IsDigit(Head(cell)) THEN acc
    ELSE LeadingIntFrom(Tail(cell), 10 * acc + DigitValue(Head(cell)))

LeadingInt(cell) == LeadingIntFrom(cell, 0)

RECURSIVE SumCells(_, _, _)
SumCells(rows, field, n) ==
    IF n = 0 THEN 0 ELSE LeadingInt(rows[n][field]) + SumCells(rows, field, n - 1)

CoverageDone == op = "build" /\ pc \notin {"title", "summaries"}

\* C8: for every domain list coverage_table draws a table whose last row is
\* TOTAL, preceded by one row per domain in input order, and the TOTAL row's
\* four counts are the sums of the rows above it.
C8_TotalRowSums ==
    CoverageDone =>
        /\ table.drawn
        /\ Len(table.rows) = Len(req_data) + 1
        /\ table.rows[Len(table.rows)].name = "TOTAL"
        /\ \A j \in 1..Len(req_data) : table.rows[j].name = req_data[j].name
        /\ \A field \in {"total", "now", "partial", "roadmap"} :
              LeadingInt(table.rows[Len(table.rows)][field])
                 = SumCells(table.rows, field, Len(req_data))

NoRequirements == \A j \in 1..Len(req_data) : Len(req_data[j].reqs) = 0

ZeroPct == <<"0", " ", "(", "0", "%", ")">>

\* C9: with no domain, or with domains that all have no requirement, the
\* coverage table is drawn without an exception and shows 0% for each state.
C9_NoDivisionByZero ==
    (CoverageDone /\ NoRequirements) =>
        /\ err = NoErr
        /\ table.drawn
        /\ table.rows[Len(table.rows)].now = ZeroPct
        /\ table.rows[Len(table.rows)].partial = ZeroPct
        /\ table.rows[Len(table.rows)].roadmap = ZeroPct

\* the claim's reading of "the status classifies into a state": the glyph is
\* one of its characters, or the keyword occurs in it at some offset
HasMarker(status, glyph, kw) ==
    \/ \E p \in 1..Len(status) : status[p] = glyph
    \/ \E p \in 0..(Len(status) - Len(kw)) : \A q \in 1..Len(kw) : status[p + q] = kw[q]

Classified(rs, glyph, kw) ==
    Cardinality({j \in 1..Len(rs) : HasMarker(rs[j].status, glyph, kw)})

\* C10: _domain_summary returns total = the number of requirements and, per
\* state, the number of requirements whose status has that state's glyph or
\* keyword; the statuses "check Now", "bolt Partial" give 2 / 1 / 1 / 0.
C10_SummaryCounts ==
    (op = "summary" /\ summary.done) =>
        /\ summary.total = Len(reqs)
        /\ summary.now = Classified(reqs, GlyphNow, KwNow)
        /\ summary.partial = Classified(reqs, GlyphPartial, KwPartial)
        /\ summary.roadmap = Classified(reqs, GlyphRoadmap, KwRoadmap)
        /\ reqs = <<Req(StatusNow), Req(StatusPartial)>> =>
              /\ summary.total = 2 /\ summary.now = 1
              /\ summary.partial = 1 /\ summary.roadmap = 0

\* the summary of the domain of the example was computed
C10_Witness ==
    /\ op = "summary" /\ summary.done
    /\ reqs = <<Req(StatusNow), Req(StatusPartial)>>
    /\ summary.now = 1 /\ summary.partial = 1

-----------------------------------------------------------------------------
(* Status normalisation.                                                   *)

HasAnyKeyword(s) ==
    \/ HasKeyword(Lower(s), KwAvailableNow)
    \/ HasKeyword(Lower(s), KwPartially)
    \/ HasKeyword(Lower(s), KwOnRoadmap)

RawYesInProduction == JoinWords(<<WordYes, WordInProduction>>)

\* C11: _normalise_status puts the 'available' marker in front of a raw
\* status that has an available-now keyword and lacks the marker ("Yes, in
\* production"), returns a raw status without any keyword as it is, and in
\* particular turns "unknown" into "unknown".
C11_MarkerOrUnchanged ==
    (op = "normalise" /\ normalised.done) =>
        /\ (HasKeyword(Lower(raw), KwAvailableNow) /\ ~Contains(raw, <<GlyphNow>>))
               => normalised.value = <<GlyphNow, " ">> \o Strip(raw)
        /\ ~HasAnyKeyword(raw) => normalised.value = Strip(raw)
        /\ raw = RawYesInProduction
               => normalised.value = <<GlyphNow, " ">> \o RawYesInProduction
        /\ raw = StatusUnknown => normalised.value = StatusUnknown

-----------------------------------------------------------------------------
(* Sheet parsing.                                                          *)

AllAliases == UNION {Aliases(RoleOrder[k]) : k \in 1..Len(RoleOrder)}

\* the cells of a row whose text, trimmed and lower-cased, is an alias
MatchingCells(row) ==
    {c \in 1..Len(row) : row[c] # NoneCell /\ Lower(Strip(row[c])) \in AllAliases}

\* C12: the header _parse_sheet picks is the first row, from the top, with at
\* least two cells whose trimmed, lower-cased text is a column-role alias; no
\* header is picked only when no row has two such cells.
C12_HeaderIsFirstRowWithTwoAliases ==
    (op = "sheet" /\ pc # "start") =>
        /\ header_idx = -1 <=>
              \A r \in 1..Len(ws) : Cardinality(MatchingCells(ws[r])) < 2
        /\ header_idx # -1 =>
              /\ Cardinality(MatchingCells(ws[header_idx + 1])) >= 2
              /\ \A r \in 1..header_idx : Cardinality(MatchingCells(ws[r])) < 2

\* a requirement cell that is empty or holds only whitespace
BlankCell(cell) == cell = NoneCell \/ Strip(cell) = <<>>

\* positions (1-based) of the data rows whose requirement cell is not blank
KeptRows ==
    {r \in (header_idx + 2)..Len(ws) : ~BlankCell(ws[r][col_map["requirement"] + 1])}

\* the k-th smallest element of a finite set of numbers
Kth(S, k) == CHOOSE x \in S : Cardinality({y \in S : y < x}) = k - 1

\* the trimmed text of the cell of a role, "" when the role has no column or
\* the cell is empty
Trimmed(row, role) ==
    IF role \notin DOMAIN col_map THEN <<>>
    ELSE IF row[col_map[role] + 1] = NoneCell THEN <<>>
    ELSE Strip(row[col_map[role] + 1])

StatusMarkers == {GlyphNow, GlyphPartial, GlyphRoadmap}

-----------------------------------------------------------------------------
(* Workbook extraction.                                                    *)

\* what _parse_sheet yields for each sheet of the workbook, <<>> for a sheet
\* whose trimmed, lower-cased name is one of the skipped names
ParsedSheets ==
    [j \in 1..Len(wb.sheets) |->
        IF Lower(Strip(wb.sheets[j].name)) \in SkipNames THEN <<>>
        ELSE ParseSheet(wb.sheets[j].rows)]

\* positions of the sheets that are not skipped by name and yield a row
ProductiveIn(parsed) == {j \in 1..Len(parsed) : parsed[j] # <<>>}

ProductiveSheets == ProductiveIn(ParsedSheets)

\* the rows of the only productive sheet, as _parse_sheet produced them
OnlySheetRows ==
    LET parsed == ParsedSheets
    IN  parsed[CHOOSE j \in ProductiveIn(parsed) : TRUE]

\* the single-sheet grouping case: one productive sheet, a row with a domain
GroupingCase ==
    /\ op = "excel" /\ pc = "returned"
    /\ LET parsed == ParsedSheets
           productive == ProductiveIn(parsed)
       IN  /\ Cardinality(productive) = 1
           /\ LET rs == parsed[CHOOSE j \in productive : TRUE]
              IN  \E k \in 1..Len(rs) : rs[k].domain # <<>>

RECURSIVE SumReqs(_)
SumReqs(doms) ==
    IF doms = <<>> THEN 0 ELSE Len(Head(doms).reqs) + SumReqs(Tail(doms))

\* position of the first of the rows rs whose domain value is d
FirstRowOf(rs, d, value(_)) ==
    CHOOSE k \in 1..Len(rs) :
        /\ value(rs[k]) = d
        /\ \A j \in 1..(k - 1) : value(rs[j]) # d

\* the domains doms are the groups of the rows rs by value: one domain per
\* value, in order of first appearance, named by the value, holding the rows
\* of that value in row order
GroupedBy(doms, rs, value(_)) ==
    LET values == {value(rs[k]) : k \in 1..Len(rs)}
    IN  /\ Len(doms) = Cardinality(values)
        /\ \A g \in 1..Len(doms) :
              /\ doms[g].name \in values
              /\ doms[g].reqs =
                    PopAll(SelectSeq(rs, LAMBDA r : value(r) = doms[g].name))
              /\ \A h \in 1..(g - 1) :
                    FirstRowOf(rs, doms[h].name, value)
                        < FirstRowOf(rs, doms[g].name, value)
        /\ SumReqs(doms) = Len(rs)

\* the domain value of a row that has one
DomainValue(r) == r.domain[1]

\* C14 as stated: in the grouping case parse_excel returns one domain per
\* distinct domain value of the rows, ordered by first appearance, each named
\* by that value and holding exactly the rows with that value in row order,
\* and the domains hold as many requirements as the sheet produced rows.
C14_OneDomainPerDomainValue ==
    GroupingCase =>
        LET rs     == OnlySheetRows
            valued == SelectSeq(rs, LAMBDA r : r.domain # <<>>)
            values == {DomainValue(valued[k]) : k \in 1..Len(valued)}
        IN  /\ Len(result) = Cardinality(values)
            /\ \A g \in 1..Len(result) :
                  /\ result[g].name \in values
                  /\ result[g].reqs =
                        PopAll(SelectSeq(rs, LAMBDA r : r.domain = <<result[g].name>>))
                  /\ \A h \in 1..(g - 1) :
                        FirstRowOf(valued, result[h].name, DomainValue)
                            < FirstRowOf(valued, result[g].name, DomainValue)
            /\ SumReqs(result) = Len(rs)

\* the domain value of a row, "Uncategorized" for a row without one
DomainOrUncategorized(r) == IF r.domain = <<>> THEN Uncategorized ELSE r.domain[1]

\* C14, amended: in the grouping case parse_excel returns one domain per
\* distinct domain value of the rows, where a row without a domain value
\* counts as having the value "Uncategorized": the domains are ordered by
\* first appearance, each is named by its value and holds exactly the rows
\* with that value in row order, and together they hold as many requirements
\* as the sheet produced rows.
C14_OneDomainPerValueOrUncategorized ==
    GroupingCase =>
        LET rs == OnlySheetRows
        IN  GroupedBy(result, rs, DomainOrUncategorized)

\* a sheet with a row of domain "API" and a row without a domain was grouped
\* into the domains "API" and "Uncategorized"
C14_Witness ==
    /\ GroupingCase
    /\ Len(result) = 2
    /\ OnlySheetRows[1].domain = <<result[1].name>>
    /\ result[2].name = Uncategorized
    /\ Len(result[2].reqs) = 1

\* C15: when parse_excel returns outside the grouping case, it returns one
\* domain per productive sheet, in workbook order; the k-th is named
\* "Domain k of N · <sheet name>" with N the number of productive sheets, is
\* described by "<row count> requirements" and holds that sheet's rows.  Sheets
\* skipped by name or yielding no row take no place and no ordinal.
C15_OneDomainPerProductiveSheet ==
    (op = "excel" /\ pc = "returned" /\ ~GroupingCase) =>
        LET parsed     == ParsedSheets
            productive == ProductiveIn(parsed)
        IN  /\ Len(result) = Cardinality(productive)
            /\ \A k \in 1..Len(result) :
                  LET sheet == wb.sheets[Kth(productive, k)]
                      rs    == parsed[Kth(productive, k)]
                  IN  /\ result[k].name =
                            TextDomain \o Str(k) \o TextOf_
                                \o Str(Cardinality(productive)) \o TextDot
                                \o sheet.name
                      /\ result[k].description = Str(Len(rs)) \o TextRequirements
                      /\ result[k].reqs = PopAll(rs)

\* the second sheet of a workbook was the only productive one and became
\* "Domain 1 of 1"
C15_Witness ==
    /\ op = "excel" /\ pc = "returned" /\ ~GroupingCase
    /\ Len(wb.sheets) = MaxSheets
    /\ ProductiveSheets = {MaxSheets}
    /\ Len(result) = 1
    /\ result[1].name = DomainTitle(1, 1, wb.sheets[MaxSheets].name)

\* C16: parse_excel raises exactly when no sheet outside the skipped names
\* yields a row; the error is a ValueError carrying the path, and nothing is
\* returned.  A sheet without header or rows beside a productive one is no
\* error.
C16_RaisesIffNoRows ==
    op = "excel" =>
        /\ Finished => (pc = "raised" <=> ProductiveSheets = {})
        /\ pc = "raised" =>
              /\ err.kind = "ValueError"
              /\ err.value = wb.path
              /\ result = <<>>
        /\ pc # "raised" => err = NoErr

\* a workbook whose only sheet with rows has a skipped name, beside a sheet
\* without a header, was rejected
C16_Witness ==
    /\ op = "excel" /\ pc = "raised"
    /\ Len(wb.sheets) = MaxSheets
    /\ \E j \in 1..Len(wb.sheets) :
          /\ Lower(Strip(wb.sheets[j].name)) \in SkipNames
          /\ wb.sheets[j].name \notin SkipNames
          /\ ParseSheet(wb.sheets[j].rows) # <<>>
    /\ \E j \in 1..Len(wb.sheets) :
          /\ Lower(Strip(wb.sheets[j].name)) \notin SkipNames
          /\ wb.sheets[j].rows # <<>>

-----------------------------------------------------------------------------
(* Structured build: slide order.                                          *)

\* what built a slide and from which domain or screenshot entry
Built(builder, k) == [renderer |-> builder, from |-> k]

\* the screenshot slides of the entries from position k on: an entry of type
\* "two_image" or "single" gives one slide, any other entry none
RECURSIVE ShotsFrom(_, _)
ShotsFrom(shots, k) ==
    IF k > Len(shots) THEN <<>>
    ELSE (CASE shots[k] = "two_image" -> <<Built("two_image_slide", k)>>
            [] shots[k] = "single" -> <<Built("instrumentation_slide", k)>>
            [] OTHER -> <<>>)
         \o ShotsFrom(shots, k + 1)

\* the order the build is to append its slides in
ExpectedOrder ==
    <<Built("title_slide", 0), Built("coverage_slide", 0)>>
    \o (IF cfg.landing THEN <<Built("instrumentation_slide", 0)>> ELSE <<>>)
    \o [j \in 1..Len(req_data) |-> Built("domain_slide", j)]
    \o ShotsFrom(cfg.screenshot_slides, 1)
    \o (IF cfg.gcc THEN <<Built("gcc_slide", 0)>> ELSE <<>>)
    \o <<Built("closing_slide", 0)>>

DeckOrder == [k \in 1..Len(deck) |-> Built(deck[k].renderer, deck[k].from)]

\* C17: the structured build appends its slides in a fixed order: the title
\* slide, the coverage summary, the landing slide if one is configured, one
\* slide per domain in domain order, the screenshot slides in configured
\* order, the GCC slide if one is configured, the closing slide.  At every
\* point of the build the document holds a prefix of that sequence, and a
\* build that returns holds all of it.
C17_FixedSlideOrder ==
    op = "build" =>
        /\ Len(deck) <= Len(ExpectedOrder)
        /\ DeckOrder = SubSeq(ExpectedOrder, 1, Len(deck))
        /\ pc = "returned" => DeckOrder = ExpectedOrder

\* a build with a landing slide, the most domains, screenshot entries of both
\* kinds and a GCC slide has returned
C17_Witness ==
    /\ op = "build" /\ pc = "returned"
    /\ cfg = CfgFull
    /\ Len(req_data) = MaxDomains
    /\ Len(deck) = MaxDomains + 7
    /\ deck[Len(deck)].renderer = "closing_slide"

-----------------------------------------------------------------------------
(* Slides with images.                                                     *)

\* no image path of the slide leads to anything
AllPathsAbsent ==
    \A k \in 1..Len(img_spec.paths) : img_spec.paths[k] \in {"", "missing"}

-----------------------------------------------------------------------------
(* Concurrent loads.                                                       *)

\* C19: with two builds loading in parallel, each from its own template, the
\* presentation a build has loaded comes from its own template only: while it
\* is opened it is the parse of that template, once returned it has that
\* template's layouts and no relationship that template does not have.
C19_LoadsOwnTemplateOnly ==
    op = "concurrent" =>
        \A p \in Procs :
            /\ builds[p].pc = "opened" =>
                  builds[p].prs = Presentation(builds[p].template)
            /\ builds[p].pc = "returned" =>
                  /\ builds[p].prs.layouts = LayoutList(builds[p].template.nLayouts)
                  /\ builds[p].prs.rels \subseteq builds[p].template.rels

-----------------------------------------------------------------------------
(* Failed generic build.                                                   *)

\* C20: a build_generic run in which rendering raises writes no output file:
\* the error is what the run ends with, the file at output_path is neither
\* created nor overwritten, and a file is only ever written by a run in which
\* every spec was rendered and nothing was raised.
C20_FailedBuildNotSaved ==
    op = "generic" =>
        /\ pc = "raised" => (err # NoErr /\ saved = NotSaved)
        /\ saved.written =>
              /\ err = NoErr
              /\ pc = "returned"
              /\ Len(results) = Len(slides)

\* rendering raised at the second spec, after the first slide had been
\* appended, and nothing was saved
C20_Witness ==
    /\ op = "generic" /\ pc = "raised"
    /\ i = 2
    /\ Len(deck) >= 1
    /\ Len(results) = 1
    /\ ~saved.written

-----------------------------------------------------------------------------
(* Template loading: files and relationships.                              *)

\* C21: when _load_template_clean has returned, for a .pptx and for a .potx
\* template alike, no file exists at the temp path: nothing was created or
\* left behind on disk.
C21_NoFileLeftBehind ==
    (op = "load" /\ pc = "returned") => tmpfile = NoTemplate

\* the slide reference the removal loop is at, or has just passed, has no
\* relationship to drop
DanglingAt(n) ==
    /\ n \in 1..Len(slide_id_list)
    /\ slide_id_list[n].rId # 0
    /\ slide_id_list[n].rId \notin template.rels

\* C22: a relationship that cannot be dropped does not stop the removal: the
\* loop never raises, after k iterations exactly the first k slide references
\* are gone from the list, those with a missing relationship included, and
\* the call returns with every slide reference removed.
C22_DropFailureTolerated ==
    op = "load" =>
        /\ pc # "raised" /\ err = NoErr
        /\ pc = "removing" =>
              prs.sldIdLst = SubSeq(slide_id_list, i, Len(slide_id_list))
        /\ pc = "returned" =>
              /\ i = Len(slide_id_list) + 1
              /\ prs.sldIdLst = <<>>

\* the loop went past a first slide whose relationship is missing and removed
\* the slides after it; the call returned
C22_Witness ==
    /\ op = "load" /\ pc = "returned"
    /\ Len(slide_id_list) = MaxSlides
    /\ DanglingAt(1)
    /\ slide_id_list[MaxSlides].rId \in template.rels
    /\ prs.sldIdLst = <<>>

-----------------------------------------------------------------------------
(* Card grid.                                                              *)

\* C23: a card grid of n items has 2 columns when n <= 4 and 3 when n > 4,
\* and ceil(n / columns) rows; every card drawn has the same width and the
\* same height; the item at 0-based index k stands in column k mod columns
\* and row k div columns, cards of one column share their left edge and cards
\* of one row their top edge, and a returned call has drawn all n items.
C23_CardGridLayout ==
    (op = "cards" /\ grid.appended) =>
        LET n     == card_spec.n
            cards == grid.cards
        IN  /\ grid.cols = (IF n <= 4 THEN 2 ELSE 3)
            /\ grid.rows * grid.cols >= n
            /\ (grid.rows - 1) * grid.cols < n
            /\ \A k \in 1..Len(cards) :
                  /\ cards[k].col = (k - 1) % grid.cols
                  /\ cards[k].row = (k - 1) \div grid.cols
                  /\ cards[k].row < grid.rows
                  /\ cards[k].w = cards[1].w /\ cards[k].w > 0
                  /\ cards[k].h = cards[1].h /\ cards[k].h > 0
            /\ \A j, k \in 1..Len(cards) :
                  /\ (cards[j].col = cards[k].col) <=> (cards[j].x = cards[k].x)
                  /\ (cards[j].row = cards[k].row) <=> (cards[j].y = cards[k].y)
            /\ pc = "returned" => Len(cards) = n

\* a returned grid of five cards: three columns, two rows, the fourth card
\* first in the second row
C23_Witness ==
    /\ op = "cards" /\ pc = "returned"
    /\ card_spec.n = 5
    /\ grid.cols = 3 /\ grid.rows = 2
    /\ Len(grid.cards) = 5
    /\ grid.cards[4].col = 0 /\ grid.cards[4].row = 1

-----------------------------------------------------------------------------
(* Status normalisation: precedence and idempotence.                       *)

\* how often a marker occurs in a status text
GlyphCount(g, s) == Cardinality({k \in 1..Len(s) : s[k] = g})

MarkerCount(s) == GlyphCount(GlyphNow, s) + GlyphCount(GlyphPartial, s) + GlyphCount(GlyphRoadmap, s)

\* the result is the trimmed text, or the trimmed text behind marker g and a
\* space when the text lacked g
PrefixedOnceWith(g, v, out) ==
    IF GlyphCount(g, v) > 0 THEN out = v ELSE out = <<g, " ">> \o v

RawPartialAvailable == JoinWords(<<WordPartial, WordAvailable>>)

\* C24: _normalise_status adds at most one marker to a raw status; when the
\* text has an available-now keyword, the marker it deals with is the available
\* marker, whatever other keywords the text has; when it has no available-now
\* keyword and has a partial keyword, it is the partial marker, whatever
\* planned keywords the text has.
C24_FirstMatchingGroupOnly ==
    (op = "normalise" /\ normalised.done) =>
        LET v   == Strip(raw)
            out == normalised.value
        IN  /\ MarkerCount(out) <= MarkerCount(v) + 1
            /\ HasKeyword(Lower(v), KwAvailableNow)
                  => PrefixedOnceWith(GlyphNow, v, out)
            /\ (~HasKeyword(Lower(v), KwAvailableNow) /\ HasKeyword(Lower(v), KwPartially))
                  => PrefixedOnceWith(GlyphPartial, v, out)

\* "Partial Available" has a partial and an available keyword and came back
\* with the available marker alone
C24_Witness ==
    /\ op = "normalise" /\ normalised.done
    /\ raw = RawPartialAvailable
    /\ HasKeyword(Lower(raw), KwPartially)
    /\ HasKeyword(Lower(raw), KwAvailableNow)
    /\ normalised.value = <<GlyphNow, " ">> \o raw
    /\ MarkerCount(normalised.value) = 1

\* C29: _normalise_status applied to its own result returns that result:
\* normalising normalised data adds no second marker.
C29_Idempotent ==
    (op = "normalise" /\ normalised.again) =>
        /\ normalised.second = normalised.value
        /\ MarkerCount(normalised.second) = MarkerCount(normalised.value)

\* a padded raw status without marker was given its marker by the first call
\* and came back from the second call as it went in
C29_Witness ==
    /\ op = "normalise" /\ normalised.again
    /\ raw = <<" ">> \o RawYesInProduction \o <<" ">>
    /\ normalised.value = <<GlyphNow, " ">> \o RawYesInProduction
    /\ normalised.second = normalised.value

-----------------------------------------------------------------------------
(* Generic rendering: defaults and empty content.                          *)

\* C25: a slide spec without a `type` key is never the spec render_all raises
\* at; once render_slide has handled it, the document holds exactly one slide
\* for it, drawn by the bullets renderer, and its handle is in the result
\* list; the unknown-type error is raised only at a spec whose `type` is
\* present and not one of the sixteen tags.
C25_MissingTypeIsBullets ==
    op = "generic" =>
        /\ \A k \in 1..Len(slides) :
              slides[k].type = NoType =>
                  /\ ~(pc = "raised" /\ i = k)
                  /\ i > k =>
                        /\ Cardinality({j \in 1..Len(deck) : deck[j].from = k}) = 1
                        /\ deck[k].from = k
                        /\ deck[k].renderer = "render_bullets"
                        /\ results[k] = k
        /\ (pc = "raised" /\ err.kind = "ValueError") =>
              /\ slides[i].type # NoType
              /\ slides[i].type \notin Range(RendererKeys)

\* a list that starts with a spec without `type` was rendered and saved, its
\* first slide a bullets slide
C25_Witness ==
    /\ op = "generic" /\ pc = "returned"
    /\ Len(slides) = MaxSpecs
    /\ slides[1].type = NoType
    /\ deck[1].renderer = "render_bullets" /\ deck[1].from = 1
    /\ saved.written /\ Len(saved.slides) = MaxSpecs

\* C26: render_card_grid called with an empty or absent `cards` list raises
\* nothing: it appends its slide, draws no card and returns.
C26_EmptyCardGridRenders ==
    (op = "cards" /\ card_spec.n = 0) =>
        /\ pc # "raised" /\ err = NoErr
        /\ pc = "returned" => (grid.appended /\ grid.cards = <<>>)

-----------------------------------------------------------------------------
(* Structured build: screenshot entries, coverage counts.                  *)

\* the screenshot entries the loop of the structured build has gone past
ShotsPassed ==
    IF pc = "screenshots" THEN i - 1
    ELSE IF pc \in {"closing", "returned"} THEN Len(cfg.screenshot_slides)
    ELSE 0

SkippedShot(k) == cfg.screenshot_slides[k] \notin {"two_image", "single"}

ShotSlides(k) ==
    {j \in 1..Len(deck) : deck[j].from = k /\ deck[j].renderer \in {"two_image_slide", "instrumentation_slide"}}

\* C27: in the structured build a screenshot entry whose type is neither
\* 'two_image' nor 'single', or is absent, raises nothing and appends no
\* slide; the entries around it get their one slide each, and the build goes
\* on to the closing slide and returns.
C27_OtherScreenshotTypeSkipped ==
    op = "build" =>
        /\ pc \in {"screenshots", "closing", "returned"} => err = NoErr
        /\ \A k \in 1..Len(cfg.screenshot_slides) :
              /\ SkippedShot(k) => ShotSlides(k) = {}
              /\ (~SkippedShot(k) /\ k <= ShotsPassed) => Cardinality(ShotSlides(k)) = 1
        /\ pc = "returned" =>
              /\ ShotsPassed = Len(cfg.screenshot_slides)
              /\ deck[Len(deck)].renderer = "closing_slide"

\* a returned build whose screenshot list had an entry of another type and an
\* entry without type, each followed or preceded by entries that were drawn
C27_Witness ==
    /\ op = "build" /\ pc = "returned"
    /\ Len(cfg.screenshot_slides) = 4
    /\ cfg.screenshot_slides[2] = "other" /\ cfg.screenshot_slides[4] = NoType
    /\ ShotSlides(2) = {} /\ ShotSlides(4) = {}
    /\ Cardinality(ShotSlides(1)) = 1 /\ Cardinality(ShotSlides(3)) = 1
    /\ deck[Len(deck)].renderer = "closing_slide"

\* C28: _domain_summary counts a requirement in at most one coverage state:
\* the available, partial and planned counts of a domain add up to no more
\* than its number of requirements.
C28_StatesAtMostTotal ==
    (op = "summary" /\ summary.done) =>
        summary.now + summary.partial + summary.roadmap <= summary.total

-----------------------------------------------------------------------------
(* Sheets whose header has no requirement column.                          *)

\* the header _parse_sheet picks in these rows has two or more roles, none of
\* them the requirement role, and data rows follow it
HeaderWithoutRequirement(sheet_rows) ==
    LET h == FindHeaderFrom(sheet_rows, 1)
    IN  /\ h # 0
        /\ h < Len(sheet_rows)
        /\ LET mapping == RowMapping(sheet_rows[h], 1, <<>>)
           IN  /\ Cardinality(DOMAIN mapping) >= MinHeaderRoles
               /\ "requirement" \notin DOMAIN mapping

\* C30: a sheet whose header row has at least two recognised roles and no
\* requirement role never contributes to parse_excel's list of productive
\* sheets, whatever its data rows hold; when every sheet that is not skipped
\* by name is such a sheet, parse_excel ends with the extraction error and
\* returns nothing.
C30_NoRequirementColumnNoRows ==
    op = "excel" =>
        LET sheets == DomainSheets(wb.sheets)
            bare   == {k \in 1..Len(sheets) : HeaderWithoutRequirement(sheets[k].rows)}
        IN  /\ \A k \in bare :
                  \A j \in 1..Len(all_reqs) : all_reqs[j].sheet_name # sheets[k].name
            /\ (Finished /\ bare = 1..Len(sheets)) =>
                  /\ pc = "raised"
                  /\ err.kind = "ValueError"
                  /\ err.value = wb.path
                  /\ result = <<>>

\* a workbook of the most sheets, each with a header without requirement
\* column above a row full of text, was rejected
C30_Witness ==
    /\ op = "excel" /\ pc = "raised"
    /\ Len(wb.sheets) = MaxSheets
    /\ Len(DomainSheets(wb.sheets)) = MaxSheets
    /\ \A k \in 1..Len(wb.sheets) :
          /\ HeaderWithoutRequirement(wb.sheets[k].rows)
          /\ wb.sheets[k].rows[2] = RowTracing
    /\ all_reqs = <<>>

====
